---- MODULE Spec2Model ----
(***************************************************************************)
(* Model of pommesevaluation.investment_results_inspection:                *)
(* preprocess_raw_results (relabeling of solver result rows) and           *)
(* aggregate_investment_results (grouping by energy carrier / technology); *)
(* of pommesinvest_routines: load_input_data, cut_leap_days, is_leap_year; *)
(* and of amiris_input_sanity_check: check_time_series_chunks.             *)
(*                                                                         *)
(* Python strings are modelled as sequences of one-character strings, so   *)
(* that str.contains, str.strip, str.split and str.replace are computed    *)
(* character by character as pandas computes them.  The model covers the   *)
(* default multi_header=False of preprocess_raw_results and tables with    *)
(* one numeric value column.                                               *)
(***************************************************************************)
EXTENDS Integers, Sequences, FiniteSets, Bags, TLC

VARIABLES
    results_raw,        \* the caller's raw result table (passed to preprocess_raw_results)
    processed_results,  \* the caller's preprocessed table (passed to aggregate_investment_results)
    mode,               \* `investments` argument of the preprocess_raw_results call
    energy_carriers,    \* `energy_carriers` argument
    by,                 \* the caller's `by` object (a str, or a list the callee may alias)
    args,               \* `investments` and `include_chp_information` of the aggregate calls
    results,            \* outcomes of the aggregate_investment_results calls so far
    pc,                 \* "raw" -> "processed" -> "aggregated", or the line of a routine
    frame,              \* arguments and local variables of the routine that runs
    stdout,             \* what the routine printed
    outcome             \* what the routine returned or raised

vars == <<results_raw, processed_results, mode, energy_carriers, by, args, results, pc,
          frame, stdout, outcome>>

\* the variables of the routines of pommesinvest_routines and
\* amiris_input_sanity_check, which the result inspection leaves alone
routine_vars == <<frame, stdout, outcome>>

\* the variables of the result inspection, which the routines leave alone
inspection_vars ==
    <<results_raw, processed_results, mode, energy_carriers, by, args, results>>

----------------------------------------------------------------------------
(* Bounds of the explored inputs *)

\* at most this many rows are drawn from ExtraRows for one input table
MaxExtraRows == 2

\* at most this many successive aggregate_investment_results calls
MaxCalls == 2

----------------------------------------------------------------------------
(* Python / pandas string primitives *)

\* None, as pandas stores it for a missing split part (never a real string)
NA == <<"<NA>">>

\* s[i-1:].startswith(p), positions counted from 1
StartsWithAt(s, p, i) ==
    /\ i + Len(p) - 1 <= Len(s)
    /\ SubSeq(s, i, i + Len(p) - 1) = p

\* Series.str.contains(p) for a pattern without regex metacharacters
str_contains(s, p) ==
    \E i \in 1..(Len(s) - Len(p) + 1) : StartsWithAt(s, p, i)

\* s.endswith(p)
str_endswith(s, p) ==
    Len(p) <= Len(s) /\ SubSeq(s, Len(s) - Len(p) + 1, Len(s)) = p

RECURSIVE str_lstrip(_, _)
str_lstrip(s, chars) ==
    IF s # <<>> /\ Head(s) \in chars THEN str_lstrip(Tail(s), chars) ELSE s

RECURSIVE str_rstrip(_, _)
str_rstrip(s, chars) ==
    IF s # <<>> /\ s[Len(s)] \in chars
    THEN str_rstrip(SubSeq(s, 1, Len(s) - 1), chars)
    ELSE s

\* Series.str.strip(chars): removes leading and trailing characters of `chars`
str_strip(s, chars) == str_rstrip(str_lstrip(s, chars), chars)

\* position of the first occurrence of character c in s at or after i, 0 when absent
RECURSIVE str_find_from(_, _, _)
str_find_from(s, c, i) ==
    IF i > Len(s) THEN 0
    ELSE IF s[i] = c THEN i
    ELSE str_find_from(s, c, i + 1)

\* position of the first occurrence of character c in s, 0 when absent
str_find(s, c) == str_find_from(s, c, 1)

\* Index.str.split(): split on runs of whitespace
RECURSIVE str_split_whitespace(_)
str_split_whitespace(s) ==
    LET t == str_lstrip(s, {" "})
        n == str_find(t, " ")
    IN  IF t = <<>> THEN <<>>
        ELSE IF n = 0 THEN <<t>>
        ELSE <<SubSeq(t, 1, n - 1)>> \o str_split_whitespace(SubSeq(t, n, Len(t)))

\* Series.str.split("_", 1): at most one split, at the first underscore
str_split_once(s) ==
    LET n == str_find(s, "_")
    IN  IF n = 0 THEN <<s>> ELSE <<SubSeq(s, 1, n - 1), SubSeq(s, n + 1, Len(s))>>

\* Series.str.split("_", expand=True).iloc[:, 0]: the part before the first underscore
str_first_token(s) ==
    LET n == str_find(s, "_")
    IN  IF n = 0 THEN s ELSE SubSeq(s, 1, n - 1)

\* Series.str.replace(p, repl): every non-overlapping occurrence, left to right
RECURSIVE str_replace_from(_, _, _, _)
str_replace_from(s, p, repl, i) ==
    IF i > Len(s) THEN <<>>
    ELSE IF StartsWithAt(s, p, i) THEN repl \o str_replace_from(s, p, repl, i + Len(p))
    ELSE <<s[i]>> \o str_replace_from(s, p, repl, i + 1)

str_replace(s, p, repl) == str_replace_from(s, p, repl, 1)

----------------------------------------------------------------------------
(* String literals of the source *)

s_storage ==
    <<"s","t","o","r","a","g","e">>
s_None ==
    <<"N","o","n","e">>
s_DE_bus_el ==
    <<"D","E","_","b","u","s","_","e","l">>
s_DE_bus_ev ==
    <<"D","E","_","b","u","s","_","e","v">>
s_DE_sink_el ==
    <<"D","E","_","s","i","n","k","_","e","l">>
s_DE_transformer_hydrogen_electrolyzer ==
    <<"D","E","_","t","r","a","n","s","f","o","r","m","e","r","_","h","y","d","r","o","g","e","n","_","e","l","e","c","t","r","o","l","y","z","e","r">>
s_transformer_ev_uc ==
    <<"t","r","a","n","s","f","o","r","m","e","r","_","e","v","_","u","c">>
s_DE_link_ ==
    <<"D","E","_","l","i","n","k","_">>
s_cluster_ ==
    <<"c","l","u","s","t","e","r","_">>
s__capacity ==
    <<"_","c","a","p","a","c","i","t","y">>
s__outflow ==
    <<"_","o","u","t","f","l","o","w">>
s__inflow ==
    <<"_","i","n","f","l","o","w">>
s__demand_after ==
    <<"_","d","e","m","a","n","d","_","a","f","t","e","r">>
s_underscore ==
    <<"_">>
s_dsm_up ==
    <<"d","s","m","_","u","p">>
s_dsm_do_shift ==
    <<"d","s","m","_","d","o","_","s","h","i","f","t">>
s_dsm_do_shed ==
    <<"d","s","m","_","d","o","_","s","h","e","d">>
s_dsm_storage_level ==
    <<"d","s","m","_","s","t","o","r","a","g","e","_","l","e","v","e","l">>
s_DE_storage_el_ ==
    <<"D","E","_","s","t","o","r","a","g","e","_","e","l","_">>
s_DE_transformer_ ==
    <<"D","E","_","t","r","a","n","s","f","o","r","m","e","r","_">>
s__new_built ==
    <<"_","n","e","w","_","b","u","i","l","t">>
s_hydrogen ==
    <<"h","y","d","r","o","g","e","n">>
s_electrolyzer ==
    <<"e","l","e","c","t","r","o","l","y","z","e","r">>
s_PHS ==
    <<"P","H","S">>
s_battery ==
    <<"b","a","t","t","e","r","y">>
s_GT ==
    <<"G","T">>
s_ST ==
    <<"S","T">>
s_CC ==
    <<"C","C">>
s_FC ==
    <<"F","C">>


(* Node names, years and carriers of the explored inputs *)
s_DE_storage_el_PHS_new_built ==
    <<"D","E","_","s","t","o","r","a","g","e","_","e","l","_","P","H","S","_","n","e","w","_","b","u","i","l","t">>
s_DE_storage_el_battery_new_built ==
    <<"D","E","_","s","t","o","r","a","g","e","_","e","l","_","b","a","t","t","e","r","y","_","n","e","w","_","b","u","i","l","t">>
s_DE_storage_el_PHS ==
    <<"D","E","_","s","t","o","r","a","g","e","_","e","l","_","P","H","S">>
s_DE_transformer_hydrogen_electrolyzer_DE ==
    <<"D","E","_","t","r","a","n","s","f","o","r","m","e","r","_","h","y","d","r","o","g","e","n","_","e","l","e","c","t","r","o","l","y","z","e","r","_","D","E">>
s_DE_transformer_natgas_CC_chp_new_built ==
    <<"D","E","_","t","r","a","n","s","f","o","r","m","e","r","_","n","a","t","g","a","s","_","C","C","_","c","h","p","_","n","e","w","_","b","u","i","l","t">>
s_DE_transformer_natgas_GT_new_built ==
    <<"D","E","_","t","r","a","n","s","f","o","r","m","e","r","_","n","a","t","g","a","s","_","G","T","_","n","e","w","_","b","u","i","l","t">>
s_DE_transformer_lignite_ST ==
    <<"D","E","_","t","r","a","n","s","f","o","r","m","e","r","_","l","i","g","n","i","t","e","_","S","T">>
s_windonshore ==
    <<"w","i","n","d","o","n","s","h","o","r","e">>
s_natgas ==
    <<"n","a","t","g","a","s">>
y_2025 ==
    <<"2","0","2","5">>
y_2030 ==
    <<"2","0","3","0">>


\* the characters of the labels in code point order
Alphabet ==
    <<"0","1","2","3","4","5","6","7","8","9","A","B","C","D","E","F","G","H","I","J","K","L","M","N","O","P","Q","R","S","T","U","V","W","X","Y","Z","_","a","b","c","d","e","f","g","h","i","j","k","l","m","n","o","p","q","r","s","t","u","v","w","x","y","z">>

\* code point rank of a character of Alphabet (Python compares str by code point)
CharCodes ==
    [c \in { Alphabet[i] : i \in 1..Len(Alphabet) } |->
        CHOOSE i \in 1..Len(Alphabet) : Alphabet[i] = c]

CharCode(c) == CharCodes[c]

\* a < b for Python strings, compared from character i on
RECURSIVE str_less_from(_, _, _)
str_less_from(a, b, i) ==
    IF i > Len(b) THEN FALSE
    ELSE IF i > Len(a) THEN TRUE
    ELSE IF a[i] = b[i] THEN str_less_from(a, b, i + 1)
    ELSE CharCode(a[i]) < CharCode(b[i])

\* a < b for Python strings
str_less(a, b) == str_less_from(a, b, 1)


----------------------------------------------------------------------------
(* Input tables.  A raw row is indexed by the string a solver result dump  *)
(* carries, "(('<from>', '<to>'), <year>)", with None for a missing        *)
(* destination; preprocess_raw_results parses that string.                 *)

RawIndex(from, to, year) ==
    <<"(", "(", "'">> \o from \o <<"'", ",", " ">>
    \o (IF to = NA THEN s_None ELSE <<"'">> \o to \o <<"'">>)
    \o <<")", ",", " ">> \o year \o <<")">>

RawRow(from, to, year, value) ==
    [index |-> RawIndex(from, to, year), value |-> value]

\* the rows a table may hold; the first four are the storage rows of an
\* investment run: PHS and battery, capacity and outflow
Rows ==
    << RawRow(s_DE_storage_el_PHS_new_built, NA, y_2025, 50),
       RawRow(s_DE_storage_el_PHS_new_built, s_DE_bus_el, y_2025, 1),
       RawRow(s_DE_storage_el_battery_new_built, NA, y_2025, 2),
       RawRow(s_DE_storage_el_battery_new_built, s_DE_bus_el, y_2025, 4),
       RawRow(s_DE_bus_el, s_DE_storage_el_PHS_new_built, y_2025, 10),
       RawRow(s_DE_storage_el_PHS_new_built, NA, y_2030, 8),
       RawRow(s_DE_storage_el_PHS_new_built, s_DE_bus_ev, y_2025, 16),
       RawRow(s_DE_storage_el_PHS, s_DE_bus_el, y_2025, 32),
       RawRow(s_DE_bus_el, s_DE_transformer_hydrogen_electrolyzer, y_2025, 64),
       RawRow(s_DE_bus_el, s_DE_transformer_hydrogen_electrolyzer_DE, y_2025, 128),
       RawRow(s_DE_transformer_natgas_CC_chp_new_built, s_DE_bus_el, y_2025, 256),
       RawRow(s_DE_transformer_natgas_GT_new_built, s_DE_bus_el, y_2030, 512),
       RawRow(s_DE_transformer_lignite_ST, s_DE_bus_el, y_2025, 1024),
       RawRow(s_windonshore, s_DE_bus_el, y_2025, 2048) >>

StorageBlock == {1, 2, 3, 4}

\* the rows of Rows at the positions in `chosen`, in the order of Rows
RECURSIVE PickRows(_, _)
PickRows(chosen, i) ==
    IF i > Len(Rows) THEN <<>>
    ELSE (IF i \in chosen THEN <<Rows[i]>> ELSE <<>>) \o PickRows(chosen, i + 1)

\* a table: optionally the storage block, and up to MaxExtraRows rows of choice
InputTables ==
    { PickRows((IF block THEN StorageBlock ELSE {}) \cup chosen, 1) :
        block \in BOOLEAN,
        chosen \in { c \in SUBSET (1..Len(Rows)) : Cardinality(c) <= MaxExtraRows } }
    \ { <<>> }

CarrierSets ==
    { {s_natgas, s_hydrogen}, {s_natgas, s_hydrogen, s_windonshore} }

\* a Python str or list of str passed as `by`
PyStr(name) == [kind |-> "str", items |-> <<name>>]
PyList(names) == [kind |-> "list", items |-> names]

ByInputs ==
    { PyStr("energy_carrier"), PyStr("technology"),
      PyList(<<"energy_carrier", "technology">>),
      PyStr("fuel"), PyList(<<"technology">>) }

\* no table (a variable not yet bound, a value not returned)
NoTable == <<>>

----------------------------------------------------------------------------
(* DataFrame.copy(): the object the callee works on.  The copy is a fresh  *)
(* object; writes to it do not reach the object `source`.                  *)

\* (mutant) no copy: the callee works on the caller's object
DataFrame_no_copy(source, fresh) == source

DataFrame_copy(source, fresh) == fresh

----------------------------------------------------------------------------
(* preprocess_raw_results *)

\* the index string split on whitespace into from / to / year, each stripped
split_index(row) ==
    LET parts == str_split_whitespace(row.index)
    IN  [from  |-> str_strip(parts[1], {"(", "'", ","}),
         to    |-> str_strip(parts[2], {")", "'", ","}),
         year  |-> str_strip(parts[3], {")"}),
         value |-> row.value]

\* (mutant) the storage -> bus direction tagged as inflow
storage_to_bus_suffix_swapped == s__inflow

\* suffix for a storage's flow into the electricity or EV bus
storage_to_bus_suffix == s__outflow

\* (mutant) the bus -> storage direction tagged as outflow
bus_to_storage_suffix_swapped == s__outflow

\* suffix for a flow from the electricity bus into a storage
bus_to_storage_suffix == s__inflow

\* (mutant) the destination is not looked at
rule_storage_capacity_any_to(r) ==
    IF str_contains(r.from, s_storage)
    THEN [r EXCEPT !.from = r.from \o s__capacity]
    ELSE r

\* "Adjust storage labels", first assignment
rule_storage_capacity(r) ==
    IF str_contains(r.from, s_storage) /\ str_contains(r.to, s_None)
    THEN [r EXCEPT !.from = r.from \o s__capacity]
    ELSE r

\* (mutant) the test of the origin left out
rule_storage_to_bus_any_from(r) ==
    IF (str_contains(r.to, s_DE_bus_el) \/ str_contains(r.to, s_DE_bus_ev))
    THEN [r EXCEPT !.from = r.from \o storage_to_bus_suffix]
    ELSE r

\* "Adjust storage labels", second assignment
rule_storage_to_bus(r) ==
    IF /\ str_contains(r.from, s_storage)
       /\ (str_contains(r.to, s_DE_bus_el) \/ str_contains(r.to, s_DE_bus_ev))
    THEN [r EXCEPT !.from = r.from \o storage_to_bus_suffix]
    ELSE r

\* (mutant) the suffix is put on the label of the bus, not of the storage
rule_bus_to_storage_keeps_from(r) ==
    IF str_contains(r.from, s_DE_bus_el) /\ str_contains(r.to, s_storage)
    THEN [r EXCEPT !.from = r.from \o bus_to_storage_suffix]
    ELSE r

\* "Adjust storage labels", third assignment
rule_bus_to_storage(r) ==
    IF str_contains(r.from, s_DE_bus_el) /\ str_contains(r.to, s_storage)
    THEN [r EXCEPT !.from = r.to \o bus_to_storage_suffix]
    ELSE r

\* "Adjust sink labels"
rule_sink(r) ==
    IF str_contains(r.from, s_DE_bus_el) /\ str_contains(r.to, s_DE_sink_el)
    THEN [r EXCEPT !.from = r.to]
    ELSE r

\* "Adjust electrolyzer labels"
rule_electrolyzer(r) ==
    IF /\ str_contains(r.from, s_DE_bus_el)
       /\ str_contains(r.to, s_DE_transformer_hydrogen_electrolyzer)
    THEN [r EXCEPT !.from = r.to]
    ELSE r

\* "Adjust label for uncontrolled EV charging"
rule_ev_uc(r) ==
    IF str_contains(r.from, s_DE_bus_el) /\ str_contains(r.to, s_transformer_ev_uc)
    THEN [r EXCEPT !.from = r.to]
    ELSE r

\* "Adjust links to foreign market areas"
rule_link(r) ==
    IF str_contains(r.from, s_DE_bus_el) /\ str_contains(r.to, s_DE_link_)
    THEN [r EXCEPT !.from = r.to]
    ELSE r

\* (mutant) a demand response cluster is relabeled like a sink
rule_demand_response_no_suffix(r) ==
    IF str_contains(r.from, s_DE_bus_el) /\ str_contains(r.to, s_cluster_)
    THEN [r EXCEPT !.from = r.to]
    ELSE r

\* "Adjust demand response inflows"
rule_demand_response(r) ==
    IF str_contains(r.from, s_DE_bus_el) /\ str_contains(r.to, s_cluster_)
    THEN [r EXCEPT !.from = r.to \o s__demand_after]
    ELSE r

\* (mutant) the variable name is not put into the label
rule_dsm_variables_no_to(r) ==
    IF r.to \in {s_dsm_up, s_dsm_do_shift, s_dsm_do_shed, s_dsm_storage_level}
    THEN [r EXCEPT !.from = r.from \o s_underscore]
    ELSE r

\* "Separate demand response variables"
rule_dsm_variables(r) ==
    IF r.to \in {s_dsm_up, s_dsm_do_shift, s_dsm_do_shed, s_dsm_storage_level}
    THEN [r EXCEPT !.from = r.from \o s_underscore \o r.to]
    ELSE r

\* the nine assignments to column "from", in source order
apply_rules(r) ==
    rule_dsm_variables(rule_demand_response(rule_link(rule_ev_uc(
        rule_electrolyzer(rule_sink(rule_bus_to_storage(rule_storage_to_bus(
            rule_storage_capacity(r)))))))))

\* (mutant) "_new_built" in the list whatever the mode
string_to_drop_both_modes(investments) ==
    <<s_DE_storage_el_, s_DE_transformer_, s__new_built>>

\* the strings removed from the unit labels
string_to_drop(investments) ==
    <<s_DE_storage_el_, s_DE_transformer_>>
    \o (IF investments THEN <<s__new_built>> ELSE <<>>)

\* the loop over string_to_drop: str.replace(string, "") one string after the other
RECURSIVE drop_strings(_, _)
drop_strings(unit, strings) ==
    IF strings = <<>> THEN unit
    ELSE drop_strings(str_replace(unit, Head(strings), <<>>), Tail(strings))

\* the rows of a table, one after the other
Table(rows) == SubSeq(rows, 1, Len(rows))

\* the table as the in-place statements leave the working object (up to the
\* last assignment to column "from")
relabel_in_place(table) ==
    Table([i \in 1..Len(table) |-> apply_rules(split_index(table[i]))])

\* (mutant) the rows without destination are dropped like rows with a missing value
rename_and_strip_dropna(table, investments) ==
    LET has_to(r) == r.to # s_None
        kept      == SelectSeq(table, has_to)
    IN  [i \in 1..Len(kept) |->
            [unit  |-> drop_strings(kept[i].from, string_to_drop(investments)),
             year  |-> kept[i].year,
             value |-> kept[i].value]]

\* rename "from" to "unit", drop "to", strip the structural strings: new objects
rename_and_strip(table, investments) ==
    Table([i \in 1..Len(table) |->
        [unit  |-> drop_strings(table[i].from, string_to_drop(investments)),
         year  |-> table[i].year,
         value |-> table[i].value]])

\* the call: what it returns, and what it leaves in the object it worked on
preprocess_raw_results(table, investments) ==
    LET worked == relabel_in_place(table)
    IN  [worked_on |-> DataFrame_copy("results_raw", "processed_results"),
         in_place  |-> worked,
         returned  |-> rename_and_strip(worked, investments)]

----------------------------------------------------------------------------
(* aggregate_investment_results *)

\* columns "fuel" and "tech": unit.str.split("_", 1, expand=True); a unit
\* without underscore gets tech None
with_fuel_tech(table) ==
    [i \in 1..Len(table) |->
        LET parts == str_split_once(table[i].unit)
        IN  [unit  |-> table[i].unit,
             year  |-> table[i].year,
             value |-> table[i].value,
             fuel  |-> parts[1],
             tech  |-> IF Len(parts) = 2 THEN parts[2] ELSE NA]]

\* number of columns the expanded split has: the longest split of the table
split_columns(table) ==
    IF \E i \in 1..Len(table) : Len(str_split_once(table[i].unit)) = 2 THEN 2
    ELSE IF Len(table) > 0 THEN 1
    ELSE 0

\* (mutant) no special case for electrolyzers
account_for_electrolyzers_skipped(r) == r

\* "Account for electrolyzers" (a None tech counts as no match)
account_for_electrolyzers(r) ==
    IF r.fuel = s_hydrogen /\ r.tech # NA /\ str_contains(r.tech, s_electrolyzer)
    THEN [r EXCEPT !.fuel = r.fuel \o s_underscore \o r.tech]
    ELSE r

storage_technologies(investments) ==
    <<s_PHS, s_battery>>
    \o (IF ~investments
        THEN <<s_PHS \o s__new_built, s_battery \o s__new_built>>
        ELSE <<>>)

storage_elements == <<s__capacity, s__outflow>>

\* [a + b for a in storage_technologies for b in storage_elements]
RECURSIVE storages_of(_, _)
storages_of(techs, elements) ==
    IF techs = <<>> THEN <<>>
    ELSE [j \in 1..Len(elements) |-> Head(techs) \o elements[j]]
         \o storages_of(Tail(techs), elements)

storages(investments) ==
    storages_of(storage_technologies(investments), storage_elements)

\* the alternatives of the regular expression r"GT|ST|CC|FC"
technologies == {s_GT, s_ST, s_CC, s_FC}

\* tech.str.contains(technologies), as np.where reads it: None is falsy
matches_technologies(tech) ==
    tech # NA /\ \E code \in technologies : str_contains(tech, code)

\* column "energy_carrier"
energy_carrier_of(r, carriers) ==
    IF r.fuel \in carriers THEN r.fuel ELSE r.unit

\* (mutant) the second assignment for include_chp_information left out
technology_of_without_chp(r, include_chp_information) ==
    IF matches_technologies(r.tech) THEN str_first_token(r.tech) ELSE r.unit

\* column "technology"
technology_of(r, include_chp_information) ==
    IF matches_technologies(r.tech)
    THEN (IF include_chp_information THEN r.tech ELSE str_first_token(r.tech))
    ELSE r.unit

\* the working table with all derived columns, as it is before the check of `by`
with_derived_columns(table, carriers, include_chp_information) ==
    Table([i \in 1..Len(table) |->
        LET r == account_for_electrolyzers(with_fuel_tech(table)[i])
        IN  [unit  |-> r.unit,
             year  |-> r.year,
             value |-> r.value,
             fuel  |-> r.fuel,
             tech  |-> r.tech,
             energy_carrier |-> energy_carrier_of(r, carriers),
             technology     |-> technology_of(r, include_chp_information)]])

\* by in ["energy_carrier", "technology", ["energy_carrier", "technology"]]
by_is_defined(b) ==
    \/ b = PyStr("energy_carrier")
    \/ b = PyStr("technology")
    \/ b = PyList(<<"energy_carrier", "technology">>)

\* the list object grouping_cols names: a new list for a str, `by` itself for a list
grouping_cols_is_by(b) == b.kind = "list"

\* (mutant) "year" is never appended
grouping_cols_without_year(b, investments) ==
    b.items

\* grouping_cols after the optional append of "year"
grouping_cols(b, investments) ==
    b.items \o (IF investments THEN <<"year">> ELSE <<>>)

\* the caller's `by` object after the call got as far as the append
by_after_append(b, investments) ==
    IF grouping_cols_is_by(b) THEN PyList(grouping_cols(b, investments)) ELSE b

column(r, name) ==
    CASE name = "energy_carrier" -> r.energy_carrier
      [] name = "technology"     -> r.technology
      [] name = "year"           -> r.year

group_key(r, cols) == [j \in 1..Len(cols) |-> column(r, cols[j])]

\* tuple order of index keys
RECURSIVE key_less(_, _)
key_less(a, b) ==
    IF a = <<>> \/ b = <<>> THEN FALSE
    ELSE IF Head(a) = Head(b) THEN key_less(Tail(a), Tail(b))
    ELSE str_less(Head(a), Head(b))

\* the sorted list with one more key put in its place
RECURSIVE insert_key(_, _)
insert_key(k, sorted) ==
    IF sorted = <<>> THEN <<k>>
    ELSE IF key_less(k, Head(sorted)) THEN <<k>> \o sorted
    ELSE <<Head(sorted)>> \o insert_key(k, Tail(sorted))

\* the keys in index order
RECURSIVE sorted_keys(_)
sorted_keys(keys) ==
    IF keys = {} THEN <<>>
    ELSE LET k == CHOOSE k \in keys : TRUE
         IN  insert_key(k, sorted_keys(keys \ {k}))

RECURSIVE sum_where(_, _, _, _)
sum_where(table, cols, key, i) ==
    IF i > Len(table) THEN 0
    ELSE (IF group_key(table[i], cols) = key THEN table[i].value ELSE 0)
         + sum_where(table, cols, key, i + 1)

\* DataFrame.groupby(cols).sum(): one row per key, keys sorted, values summed
groupby_sum(table, cols) ==
    LET keys == sorted_keys({ group_key(table[i], cols) : i \in 1..Len(table) })
    IN  Table([j \in 1..Len(keys) |->
            [key |-> keys[j], value |-> sum_where(table, cols, keys[j], 1)]])

level_0(grouped) == { grouped[j].key[1] : j \in 1..Len(grouped) }

\* a label of `labels` that is no value of the first index level makes .loc raise
loc_raises(grouped, labels) ==
    \E j \in 1..Len(labels) : labels[j] \notin level_0(grouped)

\* grouped.loc[labels]: for each label in turn, its rows in index order
RECURSIVE loc_labels(_, _)
loc_labels(grouped, labels) ==
    IF labels = <<>> THEN <<>>
    ELSE LET test(cell) == cell.key[1] = Head(labels)
         IN  SelectSeq(grouped, test) \o loc_labels(grouped, Tail(labels))

\* (mutant) the selected rows are not dropped
drop_index_skipped(grouped, selected) == grouped

\* grouped.drop(index=selected.index)
drop_index(grouped, selected) ==
    LET dropped == { selected[j].key : j \in 1..Len(selected) }
        test(cell) == cell.key \notin dropped
    IN  SelectSeq(grouped, test)

\* a call that raised `error` at source line `line`; names_by: the message
\* names the received `by`
Raise(b, error, line, named, worked) ==
    [by |-> b, status |-> "raise", error |-> error, line |-> line, names_by |-> named,
     in_place |-> worked, returns |-> 0,
     aggregated_results |-> NoTable, other_storages_results |-> NoTable]

\* a call that returned n tables
Return(b, n, worked, aggregated, other) ==
    [by |-> b, status |-> "return", error |-> "none", line |-> 0, names_by |-> FALSE,
     in_place |-> worked, returns |-> n,
     aggregated_results |-> aggregated, other_storages_results |-> other]

\* the call: its outcome, the object it worked on with what it left in it, and
\* the caller's `by` object after it
aggregate_investment_results(table, carriers, b, investments, include_chp_information) ==
    LET worked  == with_derived_columns(table, carriers, include_chp_information)
        cols    == grouping_cols(b, investments)
        grouped == groupby_sum(worked, cols)
        other   == loc_labels(grouped, storages(investments))
        target  == DataFrame_copy("processed_results", "aggregated_results")
    IN  IF split_columns(table) # 2
        THEN [outcome |-> Raise(b, "ValueError", 194, FALSE, table),
              worked_on |-> target, by_after |-> b]
        ELSE IF ~by_is_defined(b)
        THEN [outcome |-> Raise(b, "ValueError", 241, TRUE, worked),
              worked_on |-> target, by_after |-> b]
        ELSE IF investments /\ loc_raises(grouped, storages(investments))
        THEN [outcome |-> Raise(b, "KeyError", 257, FALSE, worked),
              worked_on |-> target, by_after |-> by_after_append(b, investments)]
        ELSE IF investments
        THEN [outcome |-> Return(b, 2, worked, drop_index(grouped, other), other),
              worked_on |-> target, by_after |-> by_after_append(b, investments)]
        ELSE [outcome |-> Return(b, 1, worked, grouped, NoTable),
              worked_on |-> target, by_after |-> by_after_append(b, investments)]

----------------------------------------------------------------------------
(* The caller: one table is preprocessed, then aggregated repeatedly with  *)
(* the same argument objects.                                              *)

Init ==
    /\ results_raw \in InputTables
    /\ energy_carriers \in CarrierSets
    /\ processed_results = NoTable
    /\ mode = "unset"
    /\ by = PyStr("energy_carrier")
    /\ args = [investments |-> TRUE, include_chp_information |-> FALSE]
    /\ results = <<>>
    /\ pc = "raw"
    /\ frame = [fn |-> "none"]
    /\ stdout = <<>>
    /\ outcome = [status |-> "none"]

\* processed_results = preprocess_raw_results(results_raw, investments)
Preprocess(investments) ==
    /\ pc = "raw"
    /\ LET call == preprocess_raw_results(results_raw, investments)
       IN  /\ processed_results' = call.returned
           /\ results_raw' =
                IF call.worked_on = "results_raw" THEN call.in_place ELSE results_raw
    /\ mode' = IF investments THEN "investment" ELSE "dispatch"
    /\ pc' = "processed"
    /\ UNCHANGED <<energy_carriers, by, args, results>>
    /\ UNCHANGED routine_vars

\* one call aggregate_investment_results(processed_results, energy_carriers, by, ...)
Call(b, a) ==
    LET call == aggregate_investment_results(
                    processed_results, energy_carriers, b,
                    a.investments, a.include_chp_information)
    IN  /\ results' = Append(results, call.outcome)
        /\ by' = call.by_after
        /\ args' = a
        /\ processed_results' =
             IF call.worked_on = "processed_results"
             THEN call.outcome.in_place
             ELSE processed_results
        /\ pc' = "aggregated"
        /\ UNCHANGED <<results_raw, mode, energy_carriers>>
        /\ UNCHANGED routine_vars

\* the first call, with freshly chosen arguments
Aggregate ==
    /\ pc = "processed"
    /\ \E b \in ByInputs, inv \in BOOLEAN, chp \in BOOLEAN :
          Call(b, [investments |-> inv, include_chp_information |-> chp])

\* a further call with the very same argument objects
AggregateAgain ==
    /\ pc = "aggregated"
    /\ Len(results) < MaxCalls
    /\ Call(by, args)

Next ==
    \/ \E investments \in BOOLEAN : Preprocess(investments)
    \/ Aggregate
    \/ AggregateAgain

Spec == Init /\ [][Next]_vars

\* at most this many rows of choice in a table of GroupingTables
MaxGroupedRows == 1

\* the tables of the claims on the labels and the grouping: optionally the
\* storage block, and up to MaxGroupedRows rows of choice
GroupingTables ==
    { PickRows((IF block THEN StorageBlock ELSE {}) \cup chosen, 1) :
        block \in BOOLEAN,
        chosen \in { c \in SUBSET (1..Len(Rows)) : Cardinality(c) <= MaxGroupedRows } }
    \ { <<>> }

GroupingInit ==
    /\ Init
    /\ results_raw \in GroupingTables

GroupingSpec == GroupingInit /\ [][Next]_vars

----------------------------------------------------------------------------
(* preprocess_raw_results statement by statement: the working object       *)
(* `processed_results` after the index split (lines 39-60), after each of  *)
(* the nine assignments to column "from" (lines 63-139), and after the     *)
(* renaming and stripping (lines 141-150).  pc names the source line of    *)
(* the statement to execute next.                                          *)

\* node names of the rule inputs
s_DE_sink_el_load ==
    <<"D","E","_","s","i","n","k","_","e","l","_","l","o","a","d">>
s_DE_link_FR ==
    <<"D","E","_","l","i","n","k","_","F","R">>
s_hoho_cluster_shift_only ==
    <<"h","o","h","o","_","c","l","u","s","t","e","r","_","s","h","i","f","t","_","o","n","l","y">>
s_DE_bus_el_storage ==
    <<"D","E","_","b","u","s","_","e","l","_","s","t","o","r","a","g","e">>
s_DE_bus_el_None ==
    <<"D","E","_","b","u","s","_","e","l","_","N","o","n","e">>
s_DE_sink_el_storage ==
    <<"D","E","_","s","i","n","k","_","e","l","_","s","t","o","r","a","g","e">>

\* origins of a rule input: a storage, the electricity bus, a transformer, a
\* demand response unit, and a constructed name that reads as storage and as bus
RuleFroms ==
    { s_DE_storage_el_PHS, s_DE_bus_el, s_DE_transformer_natgas_GT_new_built,
      s_hoho_cluster_shift_only, s_DE_bus_el_storage }

\* destinations of a rule input: none, the buses, a storage, a sink, the
\* electrolyzer, uncontrolled EV charging, a link, a demand response cluster, the
\* four demand response variables, and three constructed names that satisfy
\* the predicates of two rules
RuleTos ==
    { NA, s_DE_bus_el, s_DE_bus_ev, s_DE_storage_el_PHS, s_DE_sink_el_load,
      s_DE_transformer_hydrogen_electrolyzer, s_transformer_ev_uc, s_DE_link_FR,
      s_hoho_cluster_shift_only,
      s_dsm_up, s_dsm_do_shift, s_dsm_do_shed, s_dsm_storage_level,
      s_DE_bus_el_None, s_DE_sink_el_storage, s_DE_bus_el_storage }

\* both flow directions of one storage
StoragePair(storage) ==
    << RawRow(storage, s_DE_bus_el, y_2025, 1), RawRow(s_DE_bus_el, storage, y_2025, 2) >>

\* the four demand response variables of one unit
DsmBlock(unit) ==
    << RawRow(unit, s_dsm_up, y_2025, 1), RawRow(unit, s_dsm_do_shift, y_2025, 2),
       RawRow(unit, s_dsm_do_shed, y_2025, 4), RawRow(unit, s_dsm_storage_level, y_2025, 8) >>

\* the tables the statements are run on
RuleTables ==
    { << RawRow(from, to, y_2025, 1) >> : from \in RuleFroms, to \in RuleTos }
    \cup { StoragePair(s_DE_storage_el_PHS), StoragePair(s_DE_storage_el_PHS_new_built),
           DsmBlock(s_hoho_cluster_shift_only) }

\* pc before each of the nine assignments to column "from"
statement_lines ==
    <<"l63", "l71", "l82", "l91", "l98", "l109", "l116", "l123", "l132">>

\* (mutant) the first two assignments in exchanged order
statement_exchanged(k, r) ==
    CASE k = 1 -> rule_storage_to_bus(r)
      [] k = 2 -> rule_storage_capacity(r)
      [] k = 3 -> rule_bus_to_storage(r)
      [] k = 4 -> rule_sink(r)
      [] k = 5 -> rule_electrolyzer(r)
      [] k = 6 -> rule_ev_uc(r)
      [] k = 7 -> rule_link(r)
      [] k = 8 -> rule_demand_response(r)
      [] k = 9 -> rule_dsm_variables(r)

\* the k-th assignment to column "from", in source order
statement(k, r) ==
    CASE k = 1 -> rule_storage_capacity(r)
      [] k = 2 -> rule_storage_to_bus(r)
      [] k = 3 -> rule_bus_to_storage(r)
      [] k = 4 -> rule_sink(r)
      [] k = 5 -> rule_electrolyzer(r)
      [] k = 6 -> rule_ev_uc(r)
      [] k = 7 -> rule_link(r)
      [] k = 8 -> rule_demand_response(r)
      [] k = 9 -> rule_dsm_variables(r)

RuleInit ==
    /\ results_raw \in RuleTables
    /\ energy_carriers \in CarrierSets
    /\ processed_results = NoTable
    /\ mode = "unset"
    /\ by = PyStr("energy_carrier")
    /\ args = [investments |-> TRUE, include_chp_information |-> FALSE]
    /\ results = <<>>
    /\ pc = "raw"
    /\ frame = [fn |-> "none"]
    /\ stdout = <<>>
    /\ outcome = [status |-> "none"]

\* lines 39-60: copy, split of the index into from / to / year, strip
Enter(investments) ==
    /\ pc = "raw"
    /\ processed_results' =
         Table([i \in 1..Len(results_raw) |-> split_index(results_raw[i])])
    /\ mode' = IF investments THEN "investment" ELSE "dispatch"
    /\ pc' = statement_lines[1]
    /\ UNCHANGED <<results_raw, energy_carriers, by, args, results>>
    /\ UNCHANGED routine_vars

\* one of the assignments of lines 63-139, on all rows of the working object
Statement(k) ==
    /\ pc = statement_lines[k]
    /\ processed_results' =
         Table([i \in 1..Len(processed_results) |-> statement(k, processed_results[i])])
    /\ pc' = IF k < Len(statement_lines) THEN statement_lines[k + 1] ELSE "l141"
    /\ UNCHANGED <<results_raw, mode, energy_carriers, by, args, results>>
    /\ UNCHANGED routine_vars

\* lines 141-152: rename, drop of "to", removal of the structural strings, return
Leave ==
    /\ pc = "l141"
    /\ processed_results' = rename_and_strip(processed_results, mode = "investment")
    /\ pc' = "processed"
    /\ UNCHANGED <<results_raw, mode, energy_carriers, by, args, results>>
    /\ UNCHANGED routine_vars

RuleNext ==
    \/ \E investments \in BOOLEAN : Enter(investments)
    \/ \E k \in 1..Len(statement_lines) : Statement(k)
    \/ Leave

RuleSpec == RuleInit /\ [][RuleNext]_vars

----------------------------------------------------------------------------
(* pommesinvest_routines: load_input_data.  A csv file is modelled by its  *)
(* data rows in file order, each with its position `t`, its entry in the   *)
(* column "country" (if the file has that column) and whether one of its   *)
(* columns is NaN.  The model covers calls whose start_time and end_time   *)
(* are in the index of the file.                                           *)

\* at most this many data rows in one csv file
MaxFileRows == 2

s_ts_hourly ==
    <<"t","s","_","h","o","u","r","l","y">>
s__ts ==
    <<"_","t","s">>
s_sinks_demand_el_ts_hourly ==
    <<"s","i","n","k","s","_","d","e","m","a","n","d","_","e","l","_","t","s","_","h","o","u","r","l","y">>
s_linking_transformers_ts ==
    <<"l","i","n","k","i","n","g","_","t","r","a","n","s","f","o","r","m","e","r","s","_","t","s">>
s_transformers_exogenous_max_ts ==
    <<"t","r","a","n","s","f","o","r","m","e","r","s","_","e","x","o","g","e","n","o","u","s","_","m","a","x","_","t","s">>
s_variable_costs_50_nominal ==
    <<"v","a","r","i","a","b","l","e","_","c","o","s","t","s","_","5","0","%","_","n","o","m","i","n","a","l">>
s_transformers_exogenous ==
    <<"t","r","a","n","s","f","o","r","m","e","r","s","_","e","x","o","g","e","n","o","u","s">>

\* file names of process_input_data (lines 159-195), for the scenario "50":
\* two of hourly_time_series, two of annual_time_series and one of components
hourly_time_series == {s_sinks_demand_el_ts_hourly, s_linking_transformers_ts}
annual_time_series == {s_transformers_exogenous_max_ts, s_variable_costs_50_nominal}
components == {s_transformers_exogenous}

\* im.countries: None, or a list of countries
CountryLists == { [none |-> TRUE], [none |-> FALSE, items |-> {"DE"}] }

\* the csv files with n data rows, with and without the column "country"
CsvFiles(n) ==
    { [country_column |-> TRUE, rows |-> rows] :
        rows \in { r \in [1..n -> [t : 1..n, country : {"DE", "FR"}, nan : BOOLEAN]] :
                     \A i \in 1..n : r[i].t = i } }
    \cup
    { [country_column |-> FALSE, rows |-> rows] :
        rows \in { r \in [1..n -> [t : 1..n, country : {"-"}, nan : BOOLEAN]] :
                     \A i \in 1..n : r[i].t = i } }

\* pd.read_csv(..., index_col=0): all data rows
read_csv(csv) == csv.rows

\* load_time_series_data_slice, lines 109-129: start_index and end_index are
\* the positions (from 0) of start_time and of the end time in the index;
\* skiprows=range(1, start_index) skips the file lines 1..start_index-1, the
\* header being line 0, and nrows rows are read from there
load_time_series_data_slice(csv, start_index, end_index) ==
    LET first == IF start_index >= 1 THEN start_index ELSE 1
        nrows == end_index - start_index + 1
        last  == IF first + nrows - 1 <= Len(csv.rows)
                 THEN first + nrows - 1 ELSE Len(csv.rows)
    IN  SubSeq(csv.rows, first, last)

\* lines 76-77
country_filter(csv, df, countries) ==
    IF csv.country_column /\ ~countries.none
    THEN LET in_countries(row) == row.country \in countries.items
         IN  SelectSeq(df, in_countries)
    ELSE df

\* df.isna().any().any()
isna_any(df) == \E i \in 1..Len(df) : df[i].nan

\* df.loc[df.isna().any(axis=1)]
nan_rows(df) ==
    LET is_nan(row) == row.nan
    IN  SelectSeq(df, is_nan)

\* lines 79-83: what the call prints for df
nan_notice(filename, df) ==
    IF isna_any(df) /\ str_contains(filename, s__ts)
    THEN << [text |-> "Attention! Time series input data file {filename} contains NaNs.",
             filename |-> filename],
            [text |-> "rows", rows |-> nan_rows(df)] >>
    ELSE <<>>

\* frames of the calls load_input_data(filename, im); an hourly file has a row
\* for start_time and a row for the end time
LoadFrames ==
    { [fn |-> "load_input_data", filename |-> filename, countries |-> countries,
       csv |-> csv, start_index |-> slice[1], end_index |-> slice[2], df |-> <<>>] :
      filename \in hourly_time_series \cup annual_time_series \cup components,
      countries \in CountryLists,
      csv \in UNION { CsvFiles(n) : n \in 0..MaxFileRows },
      slice \in (0..(MaxFileRows - 1)) \X (0..(MaxFileRows - 1)) }

LoadFrame(f) ==
    IF str_contains(f.filename, s_ts_hourly)
    THEN f.start_index <= f.end_index /\ f.end_index < Len(f.csv.rows)
    ELSE f.start_index = 0 /\ f.end_index = 0

\* lines 70-74
LoadRead ==
    /\ pc = "load_input_data:70"
    /\ frame' = [frame EXCEPT !.df =
                    IF ~str_contains(frame.filename, s_ts_hourly)
                    THEN read_csv(frame.csv)
                    ELSE load_time_series_data_slice(
                             frame.csv, frame.start_index, frame.end_index)]
    /\ pc' = "load_input_data:76"
    /\ UNCHANGED <<stdout, outcome>>
    /\ UNCHANGED inspection_vars

\* lines 76-77
LoadFilter ==
    /\ pc = "load_input_data:76"
    /\ frame' = [frame EXCEPT !.df = country_filter(frame.csv, frame.df, frame.countries)]
    /\ pc' = "load_input_data:79"
    /\ UNCHANGED <<stdout, outcome>>
    /\ UNCHANGED inspection_vars

\* lines 79-83
LoadCheck ==
    /\ pc = "load_input_data:79"
    /\ stdout' = stdout \o nan_notice(frame.filename, frame.df)
    /\ pc' = "load_input_data:85"
    /\ UNCHANGED <<frame, outcome>>
    /\ UNCHANGED inspection_vars

\* line 85
LoadReturn ==
    /\ pc = "load_input_data:85"
    /\ outcome' = [status |-> "return", value |-> frame.df]
    /\ pc' = "returned"
    /\ UNCHANGED <<frame, stdout>>
    /\ UNCHANGED inspection_vars

----------------------------------------------------------------------------
(* pommesinvest_routines: is_leap_year and cut_leap_days.  A time series   *)
(* is modelled by the number of rows it has on each date <<year, month,    *)
(* day>> of its DatetimeIndex (a bag of dates): the mask of cut_leap_days  *)
(* reads year, month and day only, and drop() removes whole rows, so the   *)
(* rows that stay are the rows as they were.                               *)

\* at most this many successive years in one time series
MaxYears == 2

\* (mutant) the last test left out
is_leap_year_no_400(year) ==
    LET l400 == FALSE
        l403 == IF year % 4 = 0 THEN TRUE ELSE l400
        l405 == IF year % 100 = 0 THEN FALSE ELSE l403
    IN  l405

\* is_leap_year(year): the three tests in the order of the source, each on
\* the value the tests before it left (Python's % with a positive divisor)
is_leap_year(year) ==
    LET l400 == FALSE
        l403 == IF year % 4 = 0 THEN TRUE ELSE l400
        l405 == IF year % 100 = 0 THEN FALSE ELSE l403
        l407 == IF year % 400 = 0 THEN TRUE ELSE l405
    IN  l407

\* number of days of a month in the calendar of pandas' DatetimeIndex
days_in_month(year, month) ==
    CASE month \in {1, 3, 5, 7, 8, 10, 12} -> 31
      [] month \in {4, 6, 9, 11} -> 30
      [] month = 2 ->
           IF (year % 4 = 0 /\ year % 100 # 0) \/ year % 400 = 0 THEN 29 ELSE 28

\* resample("H"): the rows of one date
HoursPerDay == 24

\* the dates of months 1..last of one year
dates_of_year(year, last) ==
    UNION { { <<year, month, day>> : day \in 1..days_in_month(year, month) } :
            month \in 1..last }

\* the hourly series of `n` complete years from `first` on; with half = TRUE the
\* last of them ends with June
hourly_series(first, n, half) ==
    [ date \in UNION { dates_of_year(first + k, IF half /\ k = n - 1 THEN 6 ELSE 12) :
                          k \in 0..(n - 1) } |-> HoursPerDay ]

\* first years of the time series: around the turns of a century and today
FirstYears == {1896, 1899, 1900, 1999, 2000, 2019, 2020, 2023, 2024, 2099, 2100}

\* sorted(list(set(time_series.index.year)))
RECURSIVE sorted_years(_)
sorted_years(ys) ==
    IF ys = {} THEN <<>>
    ELSE LET lo == CHOOSE y \in ys : \A z \in ys : y <= z
         IN  <<lo>> \o sorted_years(ys \ {lo})

\* (mutant) the mask without the comparison of the year
leap_day_mask_any_year(date, year) ==
    date[2] = 12 /\ date[3] = 31

\* lines 375-377: the rows of 31 December of `year`
leap_day_mask(date, year) ==
    date[1] = year /\ date[2] = 12 /\ date[3] = 31

\* (mutant) the rows of 29 February are dropped
cut_year_leap_day(time_series, year) ==
    IF is_leap_year(year)
    THEN [ date \in { d \in DOMAIN time_series :
                        ~(d[1] = year /\ d[2] = 2 /\ d[3] = 29) } |->
             time_series[date] ]
    ELSE time_series

\* lines 371-382: one pass of the loop; drop() of no labels drops nothing and
\* raises nothing
cut_year(time_series, year) ==
    IF is_leap_year(year)
    THEN [ date \in { d \in DOMAIN time_series : ~leap_day_mask(d, year) } |->
             time_series[date] ]
    ELSE time_series

\* the years is_leap_year is called with on its own
YearInputs == (-401)..2401

\* frames of the calls cut_leap_days(time_series) and is_leap_year(year)
CutFrames ==
    { [fn |-> "cut_leap_days", time_series |-> hourly_series(first, n, half),
       given |-> hourly_series(first, n, half), years |-> <<>>] :
      first \in FirstYears, n \in 1..MaxYears, half \in BOOLEAN }

LeapFrames == { [fn |-> "is_leap_year", year |-> y] : y \in YearInputs }

\* line 369
CutEnter ==
    /\ pc = "cut_leap_days:369"
    /\ frame' = [frame EXCEPT !.years = sorted_years({ date[1] : date \in DOMAIN frame.time_series })]
    /\ pc' = "cut_leap_days:370"
    /\ UNCHANGED <<stdout, outcome>>
    /\ UNCHANGED inspection_vars

\* lines 370-382: the loop body for the next year
CutYear ==
    /\ pc = "cut_leap_days:370"
    /\ frame.years # <<>>
    /\ frame' = [frame EXCEPT !.time_series = cut_year(frame.time_series, Head(frame.years)),
                              !.years = Tail(frame.years)]
    /\ UNCHANGED <<pc, stdout, outcome>>
    /\ UNCHANGED inspection_vars

\* line 384
CutReturn ==
    /\ pc = "cut_leap_days:370"
    /\ frame.years = <<>>
    /\ outcome' = [status |-> "return", value |-> frame.time_series]
    /\ pc' = "returned"
    /\ UNCHANGED <<frame, stdout>>
    /\ UNCHANGED inspection_vars

\* lines 400-409
IsLeapYear ==
    /\ pc = "is_leap_year:400"
    /\ outcome' = [status |-> "return", value |-> is_leap_year(frame.year)]
    /\ pc' = "returned"
    /\ UNCHANGED <<frame, stdout>>
    /\ UNCHANGED inspection_vars

----------------------------------------------------------------------------
(* amiris_input_sanity_check: check_time_series_chunks.  The file is a     *)
(* table of rows (index string, value); describe() is modelled by count,   *)
(* min and max of the values.                                              *)

\* index strings of the rows a file is made of, in file order
t_2020_01 == <<"2","0","2","0","-","0","1">>
t_2020_07 == <<"2","0","2","0","-","0","7">>
t_2021_01 == <<"2","0","2","1","-","0","1">>
t_2022_01 == <<"2","0","2","2","-","0","1">>

ChunkRows ==
    << [index |-> t_2020_01, value |-> 3], [index |-> t_2020_07, value |-> 5],
       [index |-> t_2021_01, value |-> 4], [index |-> t_2022_01, value |-> 1] >>

\* the files: every selection of at least one of the rows, in file order
\* (read_csv raises EmptyDataError for a file without rows)
ChunkFiles ==
    { LET chosen(row) == row.value \in picked
      IN  SelectSeq(ChunkRows, chosen) :
      picked \in SUBSET { ChunkRows[i].value : i \in 1..Len(ChunkRows) } \ {{}} }

\* str.slice(start=0, stop=4)
str_slice_0_4(s) == SubSeq(s, 1, IF Len(s) < 4 THEN Len(s) ELSE 4)

\* Index.unique(): the values in the order of their first appearance
RECURSIVE unique(_)
unique(s) ==
    IF s = <<>> THEN <<>>
    ELSE LET before == unique(SubSeq(s, 1, Len(s) - 1))
             last   == s[Len(s)]
         IN  IF \E i \in 1..Len(before) : before[i] = last
             THEN before
             ELSE Append(before, last)

\* line 55
index_years(time_series) ==
    unique([i \in 1..Len(time_series) |-> str_slice_0_4(time_series[i].index)])

\* DataFrame.describe() of a table with at least one row: count, min and max
describe(data) ==
    LET values == { data[i].value : i \in 1..Len(data) }
    IN  [count |-> Len(data),
         min |-> CHOOSE v \in values : \A w \in values : v <= w,
         max |-> CHOOSE v \in values : \A w \in values : w <= v]

\* lines 59-66: the entry of annual_data for one year
annual_entry(time_series, iter_year) ==
    LET of_year(row) == str_slice_0_4(row.index) = iter_year
        data == SelectSeq(time_series, of_year)
    IN  [year |-> iter_year, data |-> data, stats |-> describe(data)]

\* lines 57-66: annual_data, a dict, as the sequence of its entries
annual_data_of(time_series, years, chunks) ==
    IF chunks = "annual"
    THEN [i \in 1..Len(years) |-> annual_entry(time_series, years[i])]
    ELSE <<>>

\* plot_time_series(data), lines 83-93: the statement plt.subplots(nrows=len(data),
\* ncols=1) of line 83 raises ValueError for no row, gives one Axes object for
\* one row, which axs[no] in line 89 cannot subscript, and an array of Axes
\* for more
plot_time_series(data) ==
    CASE Len(data) = 0 -> [status |-> "raise", error |-> "ValueError", line |-> 83]
      [] Len(data) = 1 -> [status |-> "raise", error |-> "TypeError", line |-> 89]
      [] OTHER         -> [status |-> "return", value |-> "None"]

\* lines 67-70: the raise is the else branch of `if plot`
plot_or_raise(chunks, plot, annual_data) ==
    IF plot
    THEN plot_time_series(annual_data)
    ELSE [status |-> "raise", error |-> "ValueError", line |-> 70]

\* frames of the calls check_time_series_chunks(path_folder, file_name, chunks, plot)
ChunkFrames ==
    { [fn |-> "check_time_series_chunks", time_series |-> file, chunks |-> chunks,
       plot |-> plot, years |-> <<>>, annual_data |-> <<>>] :
      file \in ChunkFiles, chunks \in {"annual", "monthly"}, plot \in BOOLEAN }

\* lines 52-56
ChunksRead ==
    /\ pc = "check_time_series_chunks:52"
    /\ frame' = [frame EXCEPT !.years = index_years(frame.time_series)]
    /\ pc' = "check_time_series_chunks:57"
    /\ UNCHANGED <<stdout, outcome>>
    /\ UNCHANGED inspection_vars

\* lines 57-66
ChunksAnnual ==
    /\ pc = "check_time_series_chunks:57"
    /\ frame' = [frame EXCEPT !.annual_data =
                    annual_data_of(frame.time_series, frame.years, frame.chunks)]
    /\ pc' = "check_time_series_chunks:67"
    /\ UNCHANGED <<stdout, outcome>>
    /\ UNCHANGED inspection_vars

\* lines 67-70
ChunksPlot ==
    /\ pc = "check_time_series_chunks:67"
    /\ LET done == plot_or_raise(frame.chunks, frame.plot, frame.annual_data)
       IN  IF done.status = "raise"
           THEN outcome' = done /\ pc' = "returned"
           ELSE outcome' = outcome /\ pc' = "check_time_series_chunks:72"
    /\ UNCHANGED <<frame, stdout>>
    /\ UNCHANGED inspection_vars

\* line 72
ChunksReturn ==
    /\ pc = "check_time_series_chunks:72"
    /\ outcome' = [status |-> "return", value |-> frame.annual_data]
    /\ pc' = "returned"
    /\ UNCHANGED <<frame, stdout>>
    /\ UNCHANGED inspection_vars

----------------------------------------------------------------------------
(* The loop over string_to_drop (lines 144-150) on one unit string, whose   *)
(* result line 152 returns, and the same once more on the unit returned.   *)

\* at most this many parts in one unit string
MaxParts == 3

s_DE_stora ==
    <<"D","E","_","s","t","o","r","a">>
s_ge_el_ ==
    <<"g","e","_","e","l","_">>

\* the parts a unit string is made of: the strings of string_to_drop, a
\* storage name, and the two halves of "DE_storage_el_"
UnitParts ==
    {s_DE_storage_el_, s_DE_transformer_, s__new_built, s_PHS, s_DE_stora, s_ge_el_}

RECURSIVE join_parts(_)
join_parts(parts) ==
    IF parts = <<>> THEN <<>> ELSE Head(parts) \o join_parts(Tail(parts))

UnitStrings ==
    { join_parts(parts) : parts \in UNION { [1..n -> UnitParts] : n \in 1..MaxParts } }

\* frames of the loop: `units` holds the column entry before the loop and
\* the entry each call returned
StripFrames ==
    { [fn |-> "string_to_drop", investments |-> investments, units |-> <<unit>>] :
      unit \in UnitStrings, investments \in BOOLEAN }

\* lines 144-150: the loop, run once
Strip ==
    /\ pc = "preprocess_raw_results:144"
    /\ frame' = [frame EXCEPT !.units =
                    Append(@, drop_strings(@[Len(@)], string_to_drop(frame.investments)))]
    /\ pc' = "preprocess_raw_results:152"
    /\ UNCHANGED <<stdout, outcome>>
    /\ UNCHANGED inspection_vars

\* line 152
StripReturn ==
    /\ pc = "preprocess_raw_results:152"
    /\ outcome' = [status |-> "return", value |-> frame.units[Len(frame.units)]]
    /\ pc' = "returned"
    /\ UNCHANGED <<frame, stdout>>
    /\ UNCHANGED inspection_vars

\* the second call, on the unit the first call returned
StripAgain ==
    /\ pc = "returned"
    /\ frame.fn = "string_to_drop"
    /\ Len(frame.units) = 2
    /\ outcome' = [status |-> "none"]
    /\ pc' = "preprocess_raw_results:144"
    /\ UNCHANGED <<frame, stdout>>
    /\ UNCHANGED inspection_vars

----------------------------------------------------------------------------
(* amiris_converter: make_directory_if_missing(folder), called once and    *)
(* once more when it returned.  The directories below the working          *)
(* directory are a set of paths, each a sequence of names, closed under    *)
(* parents; <<>> is the working directory itself.                          *)

\* at most this many names in one folder path
MaxLevels == 2

s_slash == <<"/">>
s_dot == <<".">>
s_dot_slash == <<".", "/">>

\* the names of directories
DirNames == { <<"a">>, <<"b">> }

\* the relative folder paths: names joined by "/", with and without a
\* leading "./" and a trailing "/"
RECURSIVE join_slash(_)
join_slash(names) ==
    IF Len(names) = 1 THEN names[1]
    ELSE names[1] \o s_slash \o join_slash(Tail(names))

Folders ==
    { lead \o join_slash(names) \o trail :
        lead \in {<<>>, s_dot_slash}, trail \in {<<>>, s_slash},
        names \in UNION { [1..n -> DirNames] : n \in 1..MaxLevels } }

\* the states of the directory tree
DirPaths == UNION { [1..n -> DirNames] : n \in 1..MaxLevels }

parent(path) == SubSeq(path, 1, Len(path) - 1)

DirStates ==
    { dirs \cup {<<>>} : dirs \in { d \in SUBSET DirPaths : \A p \in d : Len(p) > 1 => parent(p) \in d } }

\* str.split("/")
RECURSIVE split_slash(_)
split_slash(s) ==
    IF \A i \in 1..Len(s) : s[i] # "/" THEN <<s>>
    ELSE LET i == CHOOSE i \in 1..Len(s) : s[i] = "/" /\ \A j \in 1..(i - 1) : s[j] # "/"
         IN  <<SubSeq(s, 1, i - 1)>> \o split_slash(SubSeq(s, i + 1, Len(s)))

\* the directory a relative path string names: empty names and "." stand for
\* the directory reached so far
path_of(s) ==
    LET is_name(part) == part # <<>> /\ part # s_dot
    IN  SelectSeq(split_slash(s), is_name)

\* folder.rsplit("/", 2)[0]: what is left of the last but one "/", of the
\* only "/", or the whole string
rsplit_2_first(s) ==
    LET at == { i \in 1..Len(s) : s[i] = "/" }
    IN  IF at = {} THEN s
        ELSE LET last == CHOOSE i \in at : \A j \in at : j <= i
                 rest == at \ {last}
             IN  IF rest = {} THEN SubSeq(s, 1, last - 1)
                 ELSE LET cut == CHOOSE i \in rest : \A j \in rest : j <= i
                      IN  SubSeq(s, 1, cut - 1)

\* os.path.exists(s)
exists(dirs, s) == path_of(s) \in dirs

\* os.mkdir(s)
mkdir(dirs, s) ==
    IF path_of(s) \in dirs
    THEN [status |-> "raise", error |-> "FileExistsError", dirs |-> dirs]
    ELSE IF parent(path_of(s)) \notin dirs
    THEN [status |-> "raise", error |-> "FileNotFoundError", dirs |-> dirs]
    ELSE [status |-> "return", dirs |-> dirs \cup {path_of(s)}]

\* frames of the calls make_directory_if_missing(folder): `dirs` is the
\* directory tree, `seen` the tree before the first call and after each call
MakeDirFrames ==
    { [fn |-> "make_directory_if_missing", folder |-> folder, dirs |-> dirs,
       seen |-> <<dirs>>] :
      folder \in Folders, dirs \in DirStates }

\* lines 107-108: the folder is there
MakeDirPass ==
    /\ pc = "make_directory_if_missing:107"
    /\ exists(frame.dirs, frame.folder)
    /\ frame' = [frame EXCEPT !.seen = Append(@, frame.dirs)]
    /\ outcome' = [status |-> "return", value |-> "None"]
    /\ pc' = "returned"
    /\ UNCHANGED stdout
    /\ UNCHANGED inspection_vars

\* lines 110-112: what is left of the last two levels is there
MakeDirSub ==
    /\ pc = "make_directory_if_missing:107"
    /\ ~exists(frame.dirs, frame.folder)
    /\ exists(frame.dirs, rsplit_2_first(frame.folder))
    /\ LET done == mkdir(frame.dirs, s_dot_slash \o frame.folder)
       IN  /\ frame' = [frame EXCEPT !.dirs = done.dirs, !.seen = Append(@, done.dirs)]
           /\ outcome' = IF done.status = "raise"
                         THEN [status |-> "raise", error |-> done.error, line |-> 112]
                         ELSE [status |-> "return", value |-> "None"]
    /\ pc' = "returned"
    /\ UNCHANGED stdout
    /\ UNCHANGED inspection_vars

\* lines 114-115
MakeDirTop ==
    /\ pc = "make_directory_if_missing:107"
    /\ ~exists(frame.dirs, frame.folder)
    /\ ~exists(frame.dirs, rsplit_2_first(frame.folder))
    /\ LET done == mkdir(frame.dirs, s_dot_slash \o rsplit_2_first(frame.folder))
       IN  IF done.status = "raise"
           THEN /\ frame' = [frame EXCEPT !.seen = Append(@, frame.dirs)]
                /\ outcome' = [status |-> "raise", error |-> done.error, line |-> 115]
                /\ pc' = "returned"
           ELSE /\ frame' = [frame EXCEPT !.dirs = done.dirs]
                /\ outcome' = outcome
                /\ pc' = "make_directory_if_missing:116"
    /\ UNCHANGED stdout
    /\ UNCHANGED inspection_vars

\* lines 116-117
MakeDirSubpath ==
    /\ pc = "make_directory_if_missing:116"
    /\ LET done == mkdir(frame.dirs, frame.folder)
       IN  /\ frame' = [frame EXCEPT !.dirs = done.dirs, !.seen = Append(@, done.dirs)]
           /\ outcome' = IF done.status = "raise"
                         THEN [status |-> "raise", error |-> done.error, line |-> 117]
                         ELSE [status |-> "return", value |-> "None"]
    /\ pc' = "returned"
    /\ UNCHANGED stdout
    /\ UNCHANGED inspection_vars

\* the second call, on the directory tree the first call left
MakeDirAgain ==
    /\ pc = "returned"
    /\ frame.fn = "make_directory_if_missing"
    /\ outcome.status = "return"
    /\ Len(frame.seen) = 2
    /\ outcome' = [status |-> "none"]
    /\ pc' = "make_directory_if_missing:107"
    /\ UNCHANGED <<frame, stdout>>
    /\ UNCHANGED inspection_vars

----------------------------------------------------------------------------
(* merit_order: reshape_merit_order_data(blocks).  A block is a row with   *)
(* fuel, costs_marginal and capacity_cumulated; the numbers are integers,  *)
(* and float32 holds the integers of up to 24 bits exactly.                *)

\* at most this many blocks
MaxBlocks == 3

\* the bits of a float32 significand
Float32Bits == 24

\* the distance of neighbouring float32 values at x >= 0
RECURSIVE float32_step(_, _)
float32_step(x, step) ==
    IF x < (2 ^ Float32Bits) * step THEN step ELSE float32_step(x, 2 * step)

\* astype("float32") of an integer x >= 0: the nearest float32, the even one
\* of two that are equally near
astype_float32(x) ==
    LET step == float32_step(x, 1)
        q    == x \div step
        r    == x % step
    IN  IF 2 * r < step THEN q * step
        ELSE IF 2 * r > step THEN (q + 1) * step
        ELSE IF q % 2 = 0 THEN q * step ELSE (q + 1) * step

Fuels == {"lignite", "natgas"}
CostsMarginal == {10, 20}
CapacityCumulated == {5, 16777217}

Blocks == [fuel : Fuels, costs_marginal : CostsMarginal, capacity_cumulated : CapacityCumulated]

\* frames of the calls reshape_merit_order_data(blocks); el counts from 0 as
\* in the code, the rows of matrix and merit_order from 1
ReshapeFrames ==
    { [fn |-> "reshape_merit_order_data", blocks |-> blocks, matrix |-> <<>>,
       merit_order |-> <<>>, el |-> 0] :
      blocks \in UNION { [1..n -> Blocks] : n \in 0..MaxBlocks } }

\* (mutant) the transition row is the next block
obj_of_next_block(matrix, el) ==
    matrix[el + 2]

\* lines 84-90: the row el with the fuel of row el + 1
obj_of(matrix, el) ==
    [matrix[el + 1] EXCEPT !.fuel = matrix[el + 2].fuel]

\* lines 69-70: .values of the three columns is an array of its own
ReshapeEnter ==
    /\ pc = "reshape_merit_order_data:69"
    /\ frame' = [frame EXCEPT !.matrix = frame.blocks, !.merit_order = <<>>]
    /\ pc' = "reshape_merit_order_data:72"
    /\ UNCHANGED <<stdout, outcome>>
    /\ UNCHANGED inspection_vars

\* lines 72-91: the loop body for el; np.append copies the row, obj is a view
\* of row el of matrix, so that the fuel is written to matrix as well
ReshapeBlock ==
    /\ pc = "reshape_merit_order_data:72"
    /\ frame.el < Len(frame.matrix) - 1
    /\ LET el  == frame.el
           row == frame.matrix[el + 1]
       IN  IF row.fuel # frame.matrix[el + 2].fuel
           THEN frame' = [frame EXCEPT
                            !.merit_order = @ \o <<row, obj_of(frame.matrix, el)>>,
                            !.matrix = [@ EXCEPT ![el + 1] = obj_of(frame.matrix, el)],
                            !.el = el + 1]
           ELSE frame' = [frame EXCEPT !.merit_order = Append(@, row), !.el = el + 1]
    /\ UNCHANGED <<pc, stdout, outcome>>
    /\ UNCHANGED inspection_vars

\* lines 94-100
ReshapeReturn ==
    /\ pc = "reshape_merit_order_data:72"
    /\ frame.el >= Len(frame.matrix) - 1
    /\ outcome' = [status |-> "return",
                   value |-> [i \in 1..Len(frame.merit_order) |->
                                [fuel |-> frame.merit_order[i].fuel,
                                 costs_marginal |->
                                   astype_float32(frame.merit_order[i].costs_marginal),
                                 capacity_cumulated |->
                                   astype_float32(frame.merit_order[i].capacity_cumulated)]]]
    /\ pc' = "returned"
    /\ UNCHANGED <<frame, stdout>>
    /\ UNCHANGED inspection_vars

----------------------------------------------------------------------------
(* pommesinvest_routines: process_input_data(im).  A dict is the sequence  *)
(* of its <<key, value>> pairs in the order of insertion; `im` is a        *)
(* function from the names of its attributes to their values.              *)

\* at most this many demand response clusters in the eligibility file
MaxClusters == 2

s_50 == <<"5","0">>
s_2020_01_01_00_00_00 ==
    <<"2","0","2","0","-","0","1","-","0","1"," ","0","0",":","0","0",":","0","0">>
s_wacc ==
    <<"w","a","c","c">>
s_linking_transformers ==
    <<"l","i","n","k","i","n","g","_","t","r","a","n","s","f","o","r","m","e","r","s">>
s_sources_renewables_ts_hourly ==
    <<"s","o","u","r","c","e","s","_","r","e","n","e","w","a","b","l","e","s","_","t","s","_","h","o","u","r","l","y">>
s_ts == <<"t","s">>
s_historical == <<"h","i","s","t","o","r","i","c","a","l">>
s_inputs_slash == <<"i","n","p","u","t","s","/">>
s_emission_development_factors ==
    <<"e","m","i","s","s","i","o","n","_","d","e","v","e","l","o","p","m","e","n","t","_","f","a","c","t","o","r","s">>
s_demand_response_clusters_eligibility ==
    <<"d","e","m","a","n","d","_","r","e","s","p","o","n","s","e","_","c","l","u","s","t","e","r","s","_","e","l","i","g","i","b","i","l","i","t","y">>
s_sinks_dr_el_ ==
    <<"s","i","n","k","s","_","d","r","_","e","l","_">>
s_sinks_dr_el_ts ==
    <<"s","i","n","k","s","_","d","r","_","e","l","_","t","s">>
s_sinks_dr_el_ava_pos_ts ==
    <<"s","i","n","k","s","_","d","r","_","e","l","_","a","v","a","_","p","o","s","_","t","s">>
s_sinks_dr_el_ava_neg_ts ==
    <<"s","i","n","k","s","_","d","r","_","e","l","_","a","v","a","_","n","e","g","_","t","s">>
s__variable_costs ==
    <<"_","v","a","r","i","a","b","l","e","_","c","o","s","t","s">>
s__fixed_costs_and_investments ==
    <<"_","f","i","x","e","d","_","c","o","s","t","s","_","a","n","d","_","i","n","v","e","s","t","m","e","n","t","s">>

\* lines 10-41: the attributes after __init__
InvestmentModelDummy(countries, activate_emissions_pathway_limit, activate_emissions_budget_limit, activate_demand_response) ==
    [ path_folder_input |-> s_inputs_slash,
      countries |-> countries,
      start_time |-> s_2020_01_01_00_00_00,
      end_time |-> s_2020_01_01_00_00_00,
      overlap_in_time_steps |-> 0,
      freq |-> <<"1","H">>,
      fuel_cost_pathway |-> s_historical,
      emissions_cost_pathway |-> s_historical,
      flexibility_options_scenario |-> s_50,
      activate_emissions_pathway_limit |-> activate_emissions_pathway_limit,
      activate_emissions_budget_limit |-> activate_emissions_budget_limit,
      activate_demand_response |-> activate_demand_response,
      demand_response_scenario |-> s_50 ]

\* (mutant) the clusters are not stored
add_demand_response_clusters_skipped(im, demand_response_clusters) ==
    im

\* lines 43-51: setattr(self, "demand_response_clusters", ...)
add_demand_response_clusters(im, demand_response_clusters) ==
    [ a \in DOMAIN im \cup {"demand_response_clusters"} |->
        IF a = "demand_response_clusters" THEN demand_response_clusters ELSE im[a] ]

\* the keys of a dict
dict_keys(d) == { d[i][1] : i \in 1..Len(d) }

\* d[key] = value: a new key is added at the end, a key that is there keeps
\* its place
dict_setitem(d, key, value) ==
    IF key \in dict_keys(d)
    THEN [ i \in 1..Len(d) |-> IF d[i][1] = key THEN <<key, value>> ELSE d[i] ]
    ELSE Append(d, <<key, value>>)

\* d[key]
dict_getitem(d, key) ==
    d[CHOOSE i \in 1..Len(d) : d[i][1] = key][2]

\* {**a, **b}: the keys of a in their places, with the value of b where b has
\* the key, and then the other keys of b
dict_merge(a, b) ==
    LET is_new(item) == item[1] \notin dict_keys(a)
    IN  [ i \in 1..Len(a) |->
            IF a[i][1] \in dict_keys(b)
            THEN <<a[i][1], dict_getitem(b, a[i][1])>>
            ELSE a[i] ]
        \o SelectSeq(b, is_new)
\* line 145
buses ==
    <<
       \* "buses": "buses"
       << <<"b","u","s","e","s">>,
          <<"b","u","s","e","s">> >>
    >>

\* lines 147-157: components
components_dict ==
    <<
       \* "sinks_excess": "sinks_excess"
       << <<"s","i","n","k","s","_","e","x","c","e","s","s">>,
          <<"s","i","n","k","s","_","e","x","c","e","s","s">> >>,
       \* "sinks_demand_el": "sinks_demand_el"
       << <<"s","i","n","k","s","_","d","e","m","a","n","d","_","e","l">>,
          <<"s","i","n","k","s","_","d","e","m","a","n","d","_","e","l">> >>,
       \* "sources_shortage": "sources_shortage"
       << <<"s","o","u","r","c","e","s","_","s","h","o","r","t","a","g","e">>,
          <<"s","o","u","r","c","e","s","_","s","h","o","r","t","a","g","e">> >>,
       \* "sources_commodity": "sources_commodity"
       << <<"s","o","u","r","c","e","s","_","c","o","m","m","o","d","i","t","y">>,
          <<"s","o","u","r","c","e","s","_","c","o","m","m","o","d","i","t","y">> >>,
       \* "sources_renewables": "sources_renewables_investment_model"
       << <<"s","o","u","r","c","e","s","_","r","e","n","e","w","a","b","l","e","s">>,
          <<"s","o","u","r","c","e","s","_","r","e","n","e","w","a","b","l","e","s","_","i","n","v","e","s","t","m","e","n","t","_","m","o","d","e","l">> >>,
       \* "exogenous_storages_el": "storages_el_exogenous"
       << <<"e","x","o","g","e","n","o","u","s","_","s","t","o","r","a","g","e","s","_","e","l">>,
          <<"s","t","o","r","a","g","e","s","_","e","l","_","e","x","o","g","e","n","o","u","s">> >>,
       \* "new_built_storages_el": "storages_el_investment_options"
       << <<"n","e","w","_","b","u","i","l","t","_","s","t","o","r","a","g","e","s","_","e","l">>,
          <<"s","t","o","r","a","g","e","s","_","e","l","_","i","n","v","e","s","t","m","e","n","t","_","o","p","t","i","o","n","s">> >>,
       \* "exogenous_transformers": "transformers_exogenous"
       << <<"e","x","o","g","e","n","o","u","s","_","t","r","a","n","s","f","o","r","m","e","r","s">>,
          <<"t","r","a","n","s","f","o","r","m","e","r","s","_","e","x","o","g","e","n","o","u","s">> >>,
       \* "new_built_transformers": "transformers_investment_options"
       << <<"n","e","w","_","b","u","i","l","t","_","t","r","a","n","s","f","o","r","m","e","r","s">>,
          <<"t","r","a","n","s","f","o","r","m","e","r","s","_","i","n","v","e","s","t","m","e","n","t","_","o","p","t","i","o","n","s">> >>
    >>

\* lines 159-165: hourly_time_series
hourly_time_series_dict ==
    <<
       \* "sinks_demand_el_ts": "sinks_demand_el_ts_hourly"
       << <<"s","i","n","k","s","_","d","e","m","a","n","d","_","e","l","_","t","s">>,
          <<"s","i","n","k","s","_","d","e","m","a","n","d","_","e","l","_","t","s","_","h","o","u","r","l","y">> >>,
       \* "sources_renewables_ts": "sources_renewables_ts_hourly"
       << <<"s","o","u","r","c","e","s","_","r","e","n","e","w","a","b","l","e","s","_","t","s">>,
          <<"s","o","u","r","c","e","s","_","r","e","n","e","w","a","b","l","e","s","_","t","s","_","h","o","u","r","l","y">> >>,
       \* "transformers_minload_ts": "transformers_minload_ts_hourly"
       << <<"t","r","a","n","s","f","o","r","m","e","r","s","_","m","i","n","l","o","a","d","_","t","s">>,
          <<"t","r","a","n","s","f","o","r","m","e","r","s","_","m","i","n","l","o","a","d","_","t","s","_","h","o","u","r","l","y">> >>,
       \* "transformers_availability_ts": "transformers_availability_ts_hourly"
       << <<"t","r","a","n","s","f","o","r","m","e","r","s","_","a","v","a","i","l","a","b","i","l","i","t","y","_","t","s">>,
          <<"t","r","a","n","s","f","o","r","m","e","r","s","_","a","v","a","i","l","a","b","i","l","i","t","y","_","t","s","_","h","o","u","r","l","y">> >>,
       \* "linking_transformers_ts": "linking_transformers_ts"
       << <<"l","i","n","k","i","n","g","_","t","r","a","n","s","f","o","r","m","e","r","s","_","t","s">>,
          <<"l","i","n","k","i","n","g","_","t","r","a","n","s","f","o","r","m","e","r","s","_","t","s">> >>
    >>

\* lines 167-195: annual_time_series
annual_time_series_dict(im) ==
    <<
       \* "transformers_exogenous_max_ts": "transformers_exogenous_max_ts"
       << <<"t","r","a","n","s","f","o","r","m","e","r","s","_","e","x","o","g","e","n","o","u","s","_","m","a","x","_","t","s">>,
          <<"t","r","a","n","s","f","o","r","m","e","r","s","_","e","x","o","g","e","n","o","u","s","_","m","a","x","_","t","s">> >>,
       \* "costs_fuel_ts": "costs_fuel_{im.fuel_cost_pathway}_nominal_indexed_ts"
       << <<"c","o","s","t","s","_","f","u","e","l","_","t","s">>,
          <<"c","o","s","t","s","_","f","u","e","l","_">> \o im["fuel_cost_pathway"] \o <<"_","n","o","m","i","n","a","l","_","i","n","d","e","x","e","d","_","t","s">> >>,
       \* "costs_emissions_ts": "costs_emissions_{im.emissions_cost_pathway}_nominal_indexed_ts"
       << <<"c","o","s","t","s","_","e","m","i","s","s","i","o","n","s","_","t","s">>,
          <<"c","o","s","t","s","_","e","m","i","s","s","i","o","n","s","_">> \o im["emissions_cost_pathway"] \o <<"_","n","o","m","i","n","a","l","_","i","n","d","e","x","e","d","_","t","s">> >>,
       \* "costs_operation_ts": "variable_costs_{im.flexibility_options_scenario}%_nominal"
       << <<"c","o","s","t","s","_","o","p","e","r","a","t","i","o","n","_","t","s">>,
          <<"v","a","r","i","a","b","l","e","_","c","o","s","t","s","_">> \o im["flexibility_options_scenario"] \o <<"%","_","n","o","m","i","n","a","l">> >>,
       \* "costs_operation_storages_ts": "variable_costs_storages_{im.flexibility_options_scenario}%_nominal"
       << <<"c","o","s","t","s","_","o","p","e","r","a","t","i","o","n","_","s","t","o","r","a","g","e","s","_","t","s">>,
          <<"v","a","r","i","a","b","l","e","_","c","o","s","t","s","_","s","t","o","r","a","g","e","s","_">> \o im["flexibility_options_scenario"] \o <<"%","_","n","o","m","i","n","a","l">> >>,
       \* "costs_investment": "investment_expenses_{im.flexibility_options_scenario}%_nominal"
       << <<"c","o","s","t","s","_","i","n","v","e","s","t","m","e","n","t">>,
          <<"i","n","v","e","s","t","m","e","n","t","_","e","x","p","e","n","s","e","s","_">> \o im["flexibility_options_scenario"] \o <<"%","_","n","o","m","i","n","a","l">> >>,
       \* "costs_storages_investment_capacity": "investment_expenses_storages_capacity_{im.flexibility_options_scenario}%_nominal"
       << <<"c","o","s","t","s","_","s","t","o","r","a","g","e","s","_","i","n","v","e","s","t","m","e","n","t","_","c","a","p","a","c","i","t","y">>,
          <<"i","n","v","e","s","t","m","e","n","t","_","e","x","p","e","n","s","e","s","_","s","t","o","r","a","g","e","s","_","c","a","p","a","c","i","t","y","_">> \o im["flexibility_options_scenario"] \o <<"%","_","n","o","m","i","n","a","l">> >>,
       \* "costs_storages_investment_power": "investment_expenses_storages_power_{im.flexibility_options_scenario}%_nominal"
       << <<"c","o","s","t","s","_","s","t","o","r","a","g","e","s","_","i","n","v","e","s","t","m","e","n","t","_","p","o","w","e","r">>,
          <<"i","n","v","e","s","t","m","e","n","t","_","e","x","p","e","n","s","e","s","_","s","t","o","r","a","g","e","s","_","p","o","w","e","r","_">> \o im["flexibility_options_scenario"] \o <<"%","_","n","o","m","i","n","a","l">> >>,
       \* "linking_transformers_annual_ts": "linking_transformers_annual_ts"
       << <<"l","i","n","k","i","n","g","_","t","r","a","n","s","f","o","r","m","e","r","s","_","a","n","n","u","a","l","_","t","s">>,
          <<"l","i","n","k","i","n","g","_","t","r","a","n","s","f","o","r","m","e","r","s","_","a","n","n","u","a","l","_","t","s">> >>,
       \* "storages_el_exogenous_max_ts": "storages_el_exogenous_max_ts"
       << <<"s","t","o","r","a","g","e","s","_","e","l","_","e","x","o","g","e","n","o","u","s","_","m","a","x","_","t","s">>,
          <<"s","t","o","r","a","g","e","s","_","e","l","_","e","x","o","g","e","n","o","u","s","_","m","a","x","_","t","s">> >>
    >>

\* lines 198-210: other_files
other_files_dict(im) ==
    <<
       \* "emission_limits": "emission_limits"
       << <<"e","m","i","s","s","i","o","n","_","l","i","m","i","t","s">>,
          <<"e","m","i","s","s","i","o","n","_","l","i","m","i","t","s">> >>,
       \* "wacc": "wacc"
       << <<"w","a","c","c">>,
          <<"w","a","c","c">> >>,
       \* "interest_rate": "interest_rate"
       << <<"i","n","t","e","r","e","s","t","_","r","a","t","e">>,
          <<"i","n","t","e","r","e","s","t","_","r","a","t","e">> >>,
       \* "fixed_costs": "fixed_costs_{im.flexibility_options_scenario}%_nominal"
       << <<"f","i","x","e","d","_","c","o","s","t","s">>,
          <<"f","i","x","e","d","_","c","o","s","t","s","_">> \o im["flexibility_options_scenario"] \o <<"%","_","n","o","m","i","n","a","l">> >>,
       \* "fixed_costs_storages": "fixed_costs_storages_{im.flexibility_options_scenario}%_nominal"
       << <<"f","i","x","e","d","_","c","o","s","t","s","_","s","t","o","r","a","g","e","s">>,
          <<"f","i","x","e","d","_","c","o","s","t","s","_","s","t","o","r","a","g","e","s","_">> \o im["flexibility_options_scenario"] \o <<"%","_","n","o","m","i","n","a","l">> >>,
       \* "hydrogen_investment_maxima": "hydrogen_investment_maxima"
       << <<"h","y","d","r","o","g","e","n","_","i","n","v","e","s","t","m","e","n","t","_","m","a","x","i","m","a">>,
          <<"h","y","d","r","o","g","e","n","_","i","n","v","e","s","t","m","e","n","t","_","m","a","x","i","m","a">> >>,
       \* "linking_transformers": "linking_transformers"
       << <<"l","i","n","k","i","n","g","_","t","r","a","n","s","f","o","r","m","e","r","s">>,
          <<"l","i","n","k","i","n","g","_","t","r","a","n","s","f","o","r","m","e","r","s">> >>
    >>

\* lines 213-219
other_files(im) ==
    IF im["activate_emissions_pathway_limit"] \/ im["activate_emissions_budget_limit"]
    THEN dict_setitem(other_files_dict(im), s_emission_development_factors,
                      s_emission_development_factors)
    ELSE other_files_dict(im)

\* lines 228-235
components_excl_demand_response(im) ==
    dict_setitem(
        dict_setitem(components_dict, <<"s","i","n","k","s","_","d","e","m","a","n","d","_","e","l">>,
            <<"s","i","n","k","s","_","d","e","m","a","n","d","_","e","l","_","e","x","c","l","_","d","e","m","a","n","d","_","r","e","s","p","o","n","s","e","_">> \o im["demand_response_scenario"]),
        s_demand_response_clusters_eligibility, s_demand_response_clusters_eligibility)

\* lines 224-227
hourly_excl_demand_response(im) ==
    dict_setitem(hourly_time_series_dict, <<"s","i","n","k","s","_","d","e","m","a","n","d","_","e","l","_","t","s">>,
        <<"s","i","n","k","s","_","d","e","m","a","n","d","_","e","l","_","e","x","c","l","_","d","e","m","a","n","d","_","r","e","s","p","o","n","s","e","_","t","s","_">> \o im["demand_response_scenario"] \o <<"_","h","o","u","r","l","y">>)

\* lines 241-244: the loop over dr_clusters.index, on components
RECURSIVE components_of_clusters(_, _, _)
components_of_clusters(d, im, index) ==
    IF index = <<>> THEN d
    ELSE components_of_clusters(
             dict_setitem(d, s_sinks_dr_el_ \o Head(index),
                          Head(index) \o <<"_","p","o","t","e","n","t","i","a","l","_","p","a","r","a","m","e","t","e","r","s","_">> \o im["demand_response_scenario"] \o <<"%">>),
             im, Tail(index))

\* lines 241, 245-253: the loop over dr_clusters.index, on annual_time_series
RECURSIVE annual_of_clusters(_, _, _)
annual_of_clusters(d, im, index) ==
    IF index = <<>> THEN d
    ELSE annual_of_clusters(
             dict_setitem(
                 dict_setitem(d, s_sinks_dr_el_ \o Head(index) \o s__variable_costs,
                              Head(index) \o <<"_","v","a","r","i","a","b","l","e","_","c","o","s","t","s","_","p","a","r","a","m","e","t","e","r","s","_">> \o im["demand_response_scenario"] \o <<"%">>),
                 s_sinks_dr_el_ \o Head(index) \o s__fixed_costs_and_investments,
                 Head(index) \o <<"_","f","i","x","e","d","_","c","o","s","t","s","_","a","n","d","_","i","n","v","e","s","t","m","e","n","t","s","_","p","a","r","a","m","e","t","e","r","s","_">> \o im["demand_response_scenario"] \o <<"%">>),
             im, Tail(index))

\* lines 255-264
hourly_of_demand_response(d, im) ==
    dict_setitem(
        dict_setitem(
            dict_setitem(d, s_sinks_dr_el_ts,
                         <<"s","i","n","k","s","_","d","e","m","a","n","d","_","r","e","s","p","o","n","s","e","_","e","l","_","t","s","_">> \o im["demand_response_scenario"]),
            s_sinks_dr_el_ava_pos_ts,
            <<"s","i","n","k","s","_","d","e","m","a","n","d","_","r","e","s","p","o","n","s","e","_","e","l","_","a","v","a","_","p","o","s","_","t","s","_">> \o im["demand_response_scenario"]),
        s_sinks_dr_el_ava_neg_ts,
        <<"s","i","n","k","s","_","d","e","m","a","n","d","_","r","e","s","p","o","n","s","e","_","e","l","_","a","v","a","_","n","e","g","_","t","s","_">> \o im["demand_response_scenario"])

\* lines 267-273
input_files(b, c, a, h, o) ==
    dict_merge(dict_merge(dict_merge(dict_merge(b, c), a), h), o)

\* the names of the clusters in the index of the eligibility file
ClusterNames == {s_hoho_cluster_shift_only, s_ts, s_battery}

ClusterIndexes ==
    { index \in UNION { [1..n -> ClusterNames] : n \in 0..MaxClusters } :
        \A i, j \in 1..Len(index) : index[i] = index[j] => i = j }

\* the input folder: the files that hold a NaN, and the file, if any, that
\* cannot be loaded: a file that is missing (read_csv, line 71), or an hourly
\* file without im.start_time in its index (get_loc, line 113)
NanFiles == {s_transformers_exogenous_max_ts, s_wacc}

LoadFailures ==
    { [none |-> TRUE],
      [none |-> FALSE, filename |-> s_demand_response_clusters_eligibility,
       error |-> "FileNotFoundError", line |-> 71],
      [none |-> FALSE, filename |-> s_linking_transformers,
       error |-> "FileNotFoundError", line |-> 71],
      [none |-> FALSE, filename |-> s_sources_renewables_ts_hourly,
       error |-> "KeyError", line |-> 113] }

\* the eligibility file of a folder holds the clusters of the frame
InputFolders == [nan : SUBSET NanFiles, fails : LoadFailures]

\* the file `filename` of the folder: the eligibility file has one row for
\* each cluster of its index, the index lines 236-238 read; every other file
\* has one row, from start_time to the end
file_csv(folder, filename) ==
    LET n == IF filename = s_demand_response_clusters_eligibility
             THEN Len(folder.eligibility) ELSE 1
    IN  [country_column |-> FALSE,
         rows |-> [ i \in 1..n |->
                      [t |-> i, country |-> "-", nan |-> filename \in folder.nan] ]]

\* load_input_data(filename, im), lines 70-85, on a file of the folder: what
\* it raises, or what it returns and prints
load_input_data(filename, im, folder) ==
    IF ~folder.fails.none /\ folder.fails.filename = filename
    THEN [status |-> "raise", error |-> folder.fails.error, line |-> folder.fails.line]
    ELSE LET csv  == file_csv(folder, filename)
             read == IF ~str_contains(filename, s_ts_hourly)
                     THEN read_csv(csv)
                     ELSE load_time_series_data_slice(csv, 0, 0)
             df   == country_filter(csv, read, im["countries"])
         IN  [status |-> "return", value |-> df, printed |-> nan_notice(filename, df)]

\* lines 275-278: the loads of the files in their order, up to the first that
\* raises; a notice of lines 79-83 is two prints
load_all(files, im, folder) ==
    LET loads   == [ i \in 1..Len(files) |-> load_input_data(files[i][2], im, folder) ]
        raising == { i \in 1..Len(files) : loads[i].status = "raise" }
        stop    == IF raising = {} THEN Len(files) + 1
                   ELSE CHOOSE i \in raising : \A j \in raising : i <= j
        prints(i) == loads[i].printed # <<>>
        noticed == SelectSeq([ i \in 1..(stop - 1) |-> i ], prints)
    IN  [ loads   |-> loads,
          stop    |-> stop,
          called  |-> [ i \in 1..(IF stop > Len(files) THEN Len(files) ELSE stop) |->
                          [call |-> "load_input_data", filename |-> files[i][2]] ],
          printed |-> [ j \in 1..(2 * Len(noticed)) |->
                          loads[noticed[(j + 1) \div 2]].printed[2 - (j % 2)] ] ]

\* frames of the calls process_input_data(im): `calls` are the calls of
\* load_input_data and of add_demand_response_clusters in their order
ProcessFrames ==
    { [fn |-> "process_input_data",
       im |-> InvestmentModelDummy(countries, pathway, budget, response),
       given |-> InvestmentModelDummy(countries, pathway, budget, response),
       eligibility |-> index,
       folder |-> [nan |-> folder.nan, fails |-> folder.fails, eligibility |-> index],
       components |-> <<>>, hourly_time_series |-> <<>>, annual_time_series |-> <<>>,
       other_files |-> <<>>, input_files |-> <<>>, calls |-> <<>>] :
      countries \in CountryLists, pathway \in BOOLEAN, budget \in BOOLEAN,
      response \in BOOLEAN, index \in ClusterIndexes, folder \in InputFolders }

\* lines 145-219
ProcessFiles ==
    /\ pc = "process_input_data:145"
    /\ frame' = [frame EXCEPT !.components = components_dict,
                              !.hourly_time_series = hourly_time_series_dict,
                              !.annual_time_series = annual_time_series_dict(frame.im),
                              !.other_files = other_files(frame.im)]
    /\ pc' = "process_input_data:222"
    /\ UNCHANGED <<stdout, outcome>>
    /\ UNCHANGED inspection_vars

\* lines 222-264: the files of demand response; the eligibility file is
\* loaded (lines 236-238), and its index is stored in im before the loop over it
ProcessDemandResponse ==
    /\ pc = "process_input_data:222"
    /\ frame.im["activate_demand_response"]
    /\ LET dr_clusters == load_input_data(s_demand_response_clusters_eligibility,
                                          frame.im, frame.folder)
           loaded == [call |-> "load_input_data",
                      filename |-> s_demand_response_clusters_eligibility]
       IN  IF dr_clusters.status = "raise"
           THEN /\ frame' = [frame EXCEPT !.calls = Append(@, loaded)]
                /\ outcome' = dr_clusters
                /\ stdout' = stdout
                /\ pc' = "returned"
           ELSE /\ frame' = [frame EXCEPT
                      !.im = add_demand_response_clusters(@, frame.eligibility),
                      !.calls = @ \o << loaded,
                                        [call |-> "add_demand_response_clusters",
                                         filename |-> <<>>] >>,
                      !.components = components_of_clusters(
                                         components_excl_demand_response(frame.im),
                                         frame.im, frame.eligibility),
                      !.annual_time_series =
                          annual_of_clusters(@, frame.im, frame.eligibility),
                      !.hourly_time_series = hourly_of_demand_response(
                                                 hourly_excl_demand_response(frame.im),
                                                 frame.im)]
                /\ outcome' = outcome
                /\ stdout' = stdout \o dr_clusters.printed
                /\ pc' = "process_input_data:267"
    /\ UNCHANGED inspection_vars

\* line 222, activate_demand_response false
ProcessNoDemandResponse ==
    /\ pc = "process_input_data:222"
    /\ ~frame.im["activate_demand_response"]
    /\ pc' = "process_input_data:267"
    /\ UNCHANGED <<frame, stdout, outcome>>
    /\ UNCHANGED inspection_vars

\* lines 267-280: every file of input_files is loaded under its key, with the
\* notices load_input_data prints; the first load that raises ends the call
ProcessLoad ==
    /\ pc = "process_input_data:267"
    /\ LET files == input_files(buses, frame.components, frame.annual_time_series,
                                frame.hourly_time_series, frame.other_files)
           done  == load_all(files, frame.im, frame.folder)
       IN  /\ frame' = [frame EXCEPT !.input_files = files,
                                     !.calls = @ \o done.called]
           /\ stdout' = stdout \o done.printed
           /\ outcome' = IF done.stop <= Len(files)
                         THEN done.loads[done.stop]
                         ELSE [status |-> "return",
                               value |-> [ i \in 1..Len(files) |->
                                             <<files[i][1],
                                               [loaded |-> files[i][2],
                                                df |-> done.loads[i].value]>> ]]
    /\ pc' = "returned"
    /\ UNCHANGED inspection_vars

----------------------------------------------------------------------------
(* The routines, each called once with arguments drawn from its frames.    *)

RoutineInit ==
    /\ frame \in { f \in LoadFrames : LoadFrame(f) }
                 \cup ChunkFrames \cup CutFrames \cup LeapFrames \cup StripFrames
                 \cup MakeDirFrames \cup ReshapeFrames \cup ProcessFrames
    /\ pc = CASE frame.fn = "load_input_data" -> "load_input_data:70"
              [] frame.fn = "check_time_series_chunks" -> "check_time_series_chunks:52"
              [] frame.fn = "cut_leap_days" -> "cut_leap_days:369"
              [] frame.fn = "is_leap_year" -> "is_leap_year:400"
              [] frame.fn = "string_to_drop" -> "preprocess_raw_results:144"
              [] frame.fn = "make_directory_if_missing" -> "make_directory_if_missing:107"
              [] frame.fn = "reshape_merit_order_data" -> "reshape_merit_order_data:69"
              [] frame.fn = "process_input_data" -> "process_input_data:145"
    /\ stdout = <<>>
    /\ outcome = [status |-> "none"]
    /\ results_raw = NoTable
    /\ processed_results = NoTable
    /\ mode = "unset"
    /\ energy_carriers = {}
    /\ by = PyStr("energy_carrier")
    /\ args = [investments |-> TRUE, include_chp_information |-> FALSE]
    /\ results = <<>>

RoutineNext ==
    \/ LoadRead
    \/ LoadFilter
    \/ LoadCheck
    \/ LoadReturn
    \/ ChunksRead
    \/ ChunksAnnual
    \/ ChunksPlot
    \/ ChunksReturn
    \/ CutEnter
    \/ CutYear
    \/ CutReturn
    \/ IsLeapYear
    \/ Strip
    \/ StripReturn
    \/ StripAgain
    \/ MakeDirPass
    \/ MakeDirSub
    \/ MakeDirTop
    \/ MakeDirSubpath
    \/ MakeDirAgain
    \/ ReshapeEnter
    \/ ReshapeBlock
    \/ ReshapeReturn
    \/ ProcessFiles
    \/ ProcessDemandResponse
    \/ ProcessNoDemandResponse
    \/ ProcessLoad

RoutineSpec == RoutineInit /\ [][RoutineNext]_vars

----------------------------------------------------------------------------
(* Vocabulary of the properties *)

Calls == 1..Len(results)

\* the processed rows as the call found them, with "fuel" and "tech"
ProcessedRow(i) == with_fuel_tech(processed_results)[i]

\* the parsed raw row i
RawParsed(i) == split_index(results_raw[i])

IsStorageToBus(i) ==
    LET r == RawParsed(i)
    IN  /\ str_contains(r.from, s_storage)
        /\ (str_contains(r.to, s_DE_bus_el) \/ str_contains(r.to, s_DE_bus_ev))

IsBusToStorage(i) ==
    LET r == RawParsed(i)
    IN  /\ str_contains(r.from, s_DE_bus_el)
        /\ str_contains(r.to, s_storage)

\* the cells of a result table whose first index level is `label`
CellsOf(table, label) == { j \in 1..Len(table) : table[j].key[1] = label }

RECURSIVE TableSum(_)
TableSum(table) ==
    IF table = <<>> THEN 0 ELSE Head(table).value + TableSum(Tail(table))

\* the key under which call n grouped (or would have grouped) row i
KeyOfRow(n, i) ==
    group_key(results[n].in_place[i], grouping_cols(results[n].by, args.investments))

\* row i of call n is counted in exactly one cell of the two returned tables
CountedOnce(n, i) ==
    Cardinality({ j \in 1..Len(results[n].aggregated_results) :
                    results[n].aggregated_results[j].key = KeyOfRow(n, i) })
    + Cardinality({ j \in 1..Len(results[n].other_storages_results) :
                    results[n].other_storages_results[j].key = KeyOfRow(n, i) })
    = 1

StorageLabels(investments) ==
    { storages(investments)[j] : j \in 1..Len(storages(investments)) }

s_PHS_capacity == s_PHS \o s__capacity
s_PHS_inflow == s_PHS \o s__inflow
s_hydrogen_electrolyzer == s_hydrogen \o s_underscore \o s_electrolyzer

----------------------------------------------------------------------------
(* C1: with investments=True and a valid `by`, every table preprocessed in *)
(* investment mode is aggregated into two tables that count each input row *)
(* exactly once, so that both tables together sum to the input.  The code  *)
(* raises KeyError whenever one of the four storage labels is no category  *)
(* of the table.                                                           *)
C1_EveryRowCountedOnce ==
    \A n \in Calls :
        (mode = "investment" /\ args.investments /\ by_is_defined(results[n].by)) =>
            /\ results[n].status = "return"
            /\ \A i \in 1..Len(processed_results) : CountedOnce(n, i)
            /\ TableSum(results[n].aggregated_results)
               + TableSum(results[n].other_storages_results)
               = TableSum(processed_results)

----------------------------------------------------------------------------
(* C2 as amended: both modes label a storage -> bus row with "_outflow"    *)
(* and a bus -> storage row with "_inflow"; the mode changes nothing but   *)
(* the removal of "_new_built".                                            *)
C2_SameSuffixInBothModes ==
    pc = "processed" =>
        \A i \in 1..Len(results_raw) :
            /\ IsStorageToBus(i) => str_endswith(processed_results[i].unit, s__outflow)
            /\ IsBusToStorage(i) => str_endswith(processed_results[i].unit, s__inflow)

\* the unit the other mode gives raw row i
UnitInOtherMode(i) ==
    preprocess_raw_results(results_raw, mode # "investment").returned[i].unit

C2_Witness ==
    /\ pc = "processed"
    /\ mode = "dispatch"
    /\ \E i \in 1..Len(results_raw) :
          /\ IsStorageToBus(i)
          /\ processed_results[i].unit = s_PHS \o s__new_built \o s__outflow
          /\ UnitInOtherMode(i) = s_PHS \o s__outflow

\* C2 as stated: the two modes give a storage -> bus row opposite suffixes
C2_OppositeSuffixes ==
    pc = "processed" =>
        \A i \in 1..Len(results_raw) :
            IsStorageToBus(i) =>
                \/ /\ str_endswith(processed_results[i].unit, s__outflow)
                   /\ str_endswith(UnitInOtherMode(i), s__inflow)
                \/ /\ str_endswith(processed_results[i].unit, s__inflow)
                   /\ str_endswith(UnitInOtherMode(i), s__outflow)

----------------------------------------------------------------------------
(* C3: in investment mode the two raw rows become PHS_capacity (50) and    *)
(* PHS_inflow (10); the statement about the two returned tables is checked *)
(* on every call with investments=True for a table that holds both rows.   *)
Row_PHS_capacity == Rows[1]
Row_PHS_inflow == Rows[5]

HoldsEndToEndRows ==
    \E i, j \in 1..Len(results_raw) :
        results_raw[i] = Row_PHS_capacity /\ results_raw[j] = Row_PHS_inflow

RelabeledEndToEnd ==
    \E i, j \in 1..Len(processed_results) :
        /\ results_raw[i] = Row_PHS_capacity
        /\ processed_results[i] = [unit |-> s_PHS_capacity, year |-> y_2025, value |-> 50]
        /\ results_raw[j] = Row_PHS_inflow
        /\ processed_results[j] = [unit |-> s_PHS_inflow, year |-> y_2025, value |-> 10]

\* the table holds a cell of the given first-level label, year 2025 and value
HasCell(table, label, value) ==
    \E j \in CellsOf(table, label) :
        table[j].key[Len(table[j].key)] = y_2025 /\ table[j].value = value

\* C3 as stated: both rows land in the storage detail table, none in the main one
C3_BothInStorageTable ==
    (pc # "raw" /\ mode = "investment" /\ HoldsEndToEndRows) =>
        /\ RelabeledEndToEnd
        /\ \A n \in Calls :
              (args.investments /\ by_is_defined(results[n].by)) =>
                 /\ results[n].status = "return"
                 /\ HasCell(results[n].other_storages_results, s_PHS_capacity, 50)
                 /\ HasCell(results[n].other_storages_results, s_PHS_inflow, 10)
                 /\ CellsOf(results[n].aggregated_results, s_PHS_capacity) = {}
                 /\ CellsOf(results[n].aggregated_results, s_PHS_inflow) = {}

----------------------------------------------------------------------------
(* C4: a call with an undefined `by` raises an error that names the        *)
(* received value, before the grouping statement.  On a table without any  *)
(* underscore in its units the split into fuel and tech raises first.      *)
C4_UndefinedByIsNamed ==
    \A n \in Calls :
        ~by_is_defined(results[n].by) =>
            /\ results[n].status = "raise"
            /\ results[n].names_by
            /\ results[n].line < 254

----------------------------------------------------------------------------
(* C5 as amended: with investments=True a call that returns has moved      *)
(* every PHS / battery capacity and outflow category out of                *)
(* aggregated_results into other_storages_results; with investments=False  *)
(* nothing is split: one table is returned and the storage categories,     *)
(* "_new_built" variants included, stay in it.                             *)
C5_StoragesSplitInInvestmentModeOnly ==
    \A n \in Calls :
        results[n].status = "return" =>
            IF args.investments
            THEN /\ results[n].returns = 2
                 /\ \A label \in StorageLabels(TRUE) :
                       /\ CellsOf(results[n].aggregated_results, label) = {}
                       /\ CellsOf(results[n].other_storages_results, label) # {}
                 /\ \A j \in 1..Len(results[n].other_storages_results) :
                       results[n].other_storages_results[j].key[1] \in StorageLabels(TRUE)
            ELSE /\ results[n].returns = 1
                 /\ results[n].other_storages_results = NoTable
                 /\ \A i \in 1..Len(processed_results) :
                       processed_results[i].unit \in StorageLabels(FALSE) =>
                           \E j \in 1..Len(results[n].aggregated_results) :
                               results[n].aggregated_results[j].key = KeyOfRow(n, i)

C5_Witness ==
    /\ Len(results) = 1
    /\ results[1].status = "return"
    /\ ~args.investments
    /\ mode = "dispatch"
    /\ CellsOf(results[1].aggregated_results, s_PHS \o s__new_built \o s__capacity) # {}

\* C5 as stated: in both modes the storage rows are split out of the main table
C5_StoragesSplitInBothModes ==
    \A n \in Calls :
        results[n].status = "return" =>
            /\ results[n].returns = 2
            /\ \A label \in StorageLabels(args.investments) :
                  CellsOf(results[n].aggregated_results, label) = {}

----------------------------------------------------------------------------
(* C6 as amended: for a unit "hydrogen_<tech>" whose tech contains         *)
(* "electrolyzer", fuel and energy_carrier are the full unit string        *)
(* "hydrogen_<tech>", never "hydrogen"; that is "hydrogen_electrolyzer"    *)
(* only for the unit "hydrogen_electrolyzer" itself.                       *)
IsElectrolyzerUnit(i) ==
    LET r == ProcessedRow(i)
    IN  r.fuel = s_hydrogen /\ r.tech # NA /\ str_contains(r.tech, s_electrolyzer)

\* the call got past the split into fuel and tech
DerivedColumns(n) == results[n].status = "return" \/ results[n].line > 194

C6_ElectrolyzerCarrierIsFullUnit ==
    \A n \in Calls :
        DerivedColumns(n) =>
            \A i \in 1..Len(processed_results) :
                IsElectrolyzerUnit(i) =>
                    /\ results[n].in_place[i].fuel = processed_results[i].unit
                    /\ results[n].in_place[i].energy_carrier = processed_results[i].unit
                    /\ results[n].in_place[i].energy_carrier # s_hydrogen
                    /\ (results[n].status = "return" /\ results[n].by = PyStr("energy_carrier")) =>
                          CellsOf(results[n].aggregated_results, processed_results[i].unit) # {}

C6_Witness ==
    /\ Len(results) = 1
    /\ results[1].status = "return"
    /\ results[1].by = PyStr("energy_carrier")
    /\ \E i \in 1..Len(processed_results) :
          /\ IsElectrolyzerUnit(i)
          /\ processed_results[i].unit = s_hydrogen_electrolyzer \o <<"_", "D", "E">>
          /\ results[1].in_place[i].energy_carrier = processed_results[i].unit

\* C6 as stated: the energy carrier of such a unit is "hydrogen_electrolyzer"
C6_ElectrolyzerCarrierIsFixed ==
    \A n \in Calls :
        DerivedColumns(n) =>
            \A i \in 1..Len(processed_results) :
                IsElectrolyzerUnit(i) =>
                    results[n].in_place[i].energy_carrier = s_hydrogen_electrolyzer

----------------------------------------------------------------------------
(* C7: a unit whose fuel part is no energy carrier and whose tech part     *)
(* matches no technology code appears as its own category, named by the    *)
(* full unit string, for by="energy_carrier" and for by="technology";      *)
(* stated for the calls with investments=False, which return one table.    *)
(* The code raises instead when no unit of the table has an underscore.    *)
IsUnknownUnit(i) ==
    /\ ProcessedRow(i).fuel \notin energy_carriers
    /\ ~matches_technologies(ProcessedRow(i).tech)

C7_UnknownUnitIsOwnCategory ==
    \A n \in Calls :
        (~args.investments /\ results[n].by \in {PyStr("energy_carrier"), PyStr("technology")}) =>
            \A i \in 1..Len(processed_results) :
                IsUnknownUnit(i) =>
                    /\ results[n].status = "return"
                    /\ \/ CellsOf(results[n].aggregated_results, processed_results[i].unit) # {}
                       \/ CellsOf(results[n].other_storages_results, processed_results[i].unit) # {}

----------------------------------------------------------------------------
(* C8: calls share no mutable state: a call leaves `by` as it was, and a   *)
(* second call with the same argument objects returns what the first call  *)
(* returned.  The code appends "year" to a list passed as `by`.            *)
C8_RepeatedCallSameOutcome ==
    \A n \in Calls :
        results[1].status = "return" =>
        /\ results[n].by = results[1].by
        /\ results[n].status = results[1].status
        /\ results[n].aggregated_results = results[1].aggregated_results
        /\ results[n].other_storages_results = results[1].other_storages_results

----------------------------------------------------------------------------
(* C9: no step changes the caller's results_raw, and no call of            *)
(* aggregate_investment_results changes the caller's processed_results.    *)
C9_InputTablesUnchanged ==
    [][ /\ results_raw' = results_raw
        /\ pc # "raw" => processed_results' = processed_results ]_vars

C9_Witness ==
    /\ Len(results) = 2
    /\ results[1].status = "return"
    /\ results_raw \in InputTables
    /\ processed_results = preprocess_raw_results(results_raw, mode = "investment").returned
    /\ \E i \in 1..Len(results_raw) : IsBusToStorage(i)

----------------------------------------------------------------------------
(* C10: in investment mode, raw rows with pairwise distinct                *)
(* (from, to, year) are relabeled to rows with pairwise distinct           *)
(* (unit, year).  The code gives a storage's flows to DE_bus_el and to     *)
(* DE_bus_ev the same unit, and merges X and X_new_built.                  *)
RawRowsDistinct ==
    \A i, j \in 1..Len(results_raw) :
        i # j => <<RawParsed(i).from, RawParsed(i).to, RawParsed(i).year>>
                 # <<RawParsed(j).from, RawParsed(j).to, RawParsed(j).year>>

C10_UnitYearUnique ==
    (pc # "raw" /\ mode = "investment" /\ RawRowsDistinct) =>
        \A i, j \in 1..Len(processed_results) :
            i # j => <<processed_results[i].unit, processed_results[i].year>>
                     # <<processed_results[j].unit, processed_results[j].year>>

----------------------------------------------------------------------------
(* C11: preprocess_raw_results returns one row per input row, in the input *)
(* order, with exactly the columns unit, year and value: the year is the   *)
(* one of the input row's index and the value is the input row's value; no *)
(* row is added, removed or merged, also not when two rows get the same    *)
(* unit and year.                                                          *)
C11_OneRowPerInputRow ==
    pc = "processed" =>
        /\ Len(processed_results) = Len(results_raw)
        /\ \A i \in 1..Len(results_raw) :
              /\ DOMAIN processed_results[i] = {"unit", "year", "value"}
              /\ str_endswith(results_raw[i].index,
                              <<" ">> \o processed_results[i].year \o <<")">>)
              /\ processed_results[i].value = results_raw[i].value

\* a table with a capacity row (no destination) and two rows that get the same
\* unit and year has been preprocessed
C11_Witness ==
    /\ pc = "processed"
    /\ \E i \in 1..Len(results_raw) : RawParsed(i).to = s_None
    /\ \E i, j \in 1..Len(processed_results) :
          /\ i # j
          /\ processed_results[i].unit = processed_results[j].unit
          /\ processed_results[i].year = processed_results[j].year
          /\ processed_results[i].value # processed_results[j].value

----------------------------------------------------------------------------
(* Vocabulary of the routine properties *)

Returned(fn) == pc = "returned" /\ frame.fn = fn

\* the rows of a sequence, as a set
RowSet(rows) == { rows[i] : i \in 1..Len(rows) }

\* the part of a time series that lies in one year
OfYear(time_series, year) ==
    [ date \in { d \in DOMAIN time_series : d[1] = year } |-> time_series[date] ]

\* number of time steps of a time series in one year
StepsInYear(time_series, year) == BagCardinality(OfYear(time_series, year))

YearsOf(time_series) == { date[1] : date \in DOMAIN time_series }

\* an hourly series covers the year completely
CoversYear(time_series, year) ==
    \A month \in 1..12 : \A day \in 1..days_in_month(year, month) :
        /\ <<year, month, day>> \in DOMAIN time_series
        /\ time_series[<<year, month, day>>] = HoursPerDay

----------------------------------------------------------------------------
(* C12 as stated: load_input_data never raises because of NaNs, and for a  *)
(* time series file (one of hourly_time_series or annual_time_series)      *)
(* that contains NaNs it prints a notice and returns the loaded rows, the  *)
(* NaN rows among them.                                                    *)
C12_WarnsOnTimeSeriesNaNs ==
    Returned("load_input_data") =>
        /\ outcome.status = "return"
        /\ ( /\ frame.filename \in hourly_time_series \cup annual_time_series
             /\ isna_any(frame.csv.rows) ) =>
                /\ stdout # <<>>
                /\ \A row \in RowSet(frame.df) : row \in RowSet(outcome.value)

----------------------------------------------------------------------------
(* C13 as stated: check_time_series_chunks raises the ValueError of line   *)
(* 70 exactly when chunks is not "annual", and with chunks = "annual" it   *)
(* returns annual_data whatever plot is.                                   *)
C13_RaisesExactlyOnOtherChunks ==
    Returned("check_time_series_chunks") =>
        /\ (outcome.status = "raise" /\ outcome.error = "ValueError" /\ outcome.line = 70)
             <=> frame.chunks # "annual"
        /\ frame.chunks = "annual" =>
             /\ outcome.status = "return"
             /\ outcome.value = frame.annual_data

----------------------------------------------------------------------------
(* C14: after cut_leap_days on an hourly series that covers each of its    *)
(* years completely, every leap year has 8760 time steps and every other   *)
(* year has the 8760 time steps it had.                                    *)
C14_CutTo8760Hours ==
    ( /\ Returned("cut_leap_days")
      /\ \A year \in YearsOf(frame.given) : CoversYear(frame.given, year) ) =>
        /\ outcome.status = "return"
        /\ \A year \in YearsOf(frame.given) :
              IF days_in_month(year, 2) = 29
              THEN StepsInYear(outcome.value, year) = 8760
              ELSE /\ StepsInYear(outcome.value, year) = 8760
                   /\ OfYear(outcome.value, year) = OfYear(frame.given, year)

\* the complete years 2020 (with 8784 hours) and 2021 have been cut
C14_Witness ==
    /\ Returned("cut_leap_days")
    /\ YearsOf(frame.given) = {2020, 2021}
    /\ CoversYear(frame.given, 2020) /\ CoversYear(frame.given, 2021)
    /\ StepsInYear(frame.given, 2020) = 8784
    /\ StepsInYear(outcome.value, 2020) = 8760
    /\ <<2020, 12, 31>> \notin DOMAIN outcome.value

----------------------------------------------------------------------------
(* C15: is_leap_year(year) is True exactly if year is divisible by 4 and   *)
(* not by 100, or divisible by 400.                                        *)
C15_GregorianLeapYear ==
    Returned("is_leap_year") =>
        /\ outcome.status = "return"
        /\ outcome.value = ( \/ (frame.year % 4 = 0 /\ frame.year % 100 # 0)
                             \/ frame.year % 400 = 0 )

\* the call for a year divisible by 400 returned True
C15_Witness ==
    /\ Returned("is_leap_year")
    /\ frame.year = 2000
    /\ outcome.value = TRUE

----------------------------------------------------------------------------
(* The relabeling rules as the specification words them: which rows rule k *)
(* is for, and the label it gives them.                                    *)

DsmVariables == {s_dsm_up, s_dsm_do_shift, s_dsm_do_shed, s_dsm_storage_level}

\* a row with label `from` and destination `to` satisfies the predicate of rule k
Matches(k, from, to) ==
    CASE k = 1 -> str_contains(from, s_storage) /\ str_contains(to, s_None)
      [] k = 2 -> /\ str_contains(from, s_storage)
                  /\ (str_contains(to, s_DE_bus_el) \/ str_contains(to, s_DE_bus_ev))
      [] k = 3 -> str_contains(from, s_DE_bus_el) /\ str_contains(to, s_storage)
      [] k = 4 -> str_contains(from, s_DE_bus_el) /\ str_contains(to, s_DE_sink_el)
      [] k = 5 -> /\ str_contains(from, s_DE_bus_el)
                  /\ str_contains(to, s_DE_transformer_hydrogen_electrolyzer)
      [] k = 6 -> str_contains(from, s_DE_bus_el) /\ str_contains(to, s_transformer_ev_uc)
      [] k = 7 -> str_contains(from, s_DE_bus_el) /\ str_contains(to, s_DE_link_)
      [] k = 8 -> str_contains(from, s_DE_bus_el) /\ str_contains(to, s_cluster_)
      [] k = 9 -> to \in DsmVariables

\* the label rule k gives a row with label `from` and destination `to`
Label(k, from, to) ==
    CASE k = 1 -> from \o s__capacity
      [] k = 2 -> from \o s__outflow
      [] k = 3 -> to \o s__inflow
      [] k \in 4..7 -> to
      [] k = 8 -> to \o s__demand_after
      [] k = 9 -> from \o s_underscore \o to

\* the k-th statement gives every row that satisfies the predicate of rule k,
\* read on the label the row has at that statement, the label of rule k, and
\* leaves every other row as it is
StatementDoes(k) ==
    (pc = statement_lines[k] /\ pc' # pc) =>
        /\ Len(processed_results') = Len(processed_results)
        /\ \A i \in 1..Len(processed_results) :
              LET r == processed_results[i]
              IN  processed_results'[i] =
                    IF Matches(k, r.from, r.to)
                    THEN [r EXCEPT !.from = Label(k, r.from, r.to)]
                    ELSE r

\* the label of row i after the last rule, before the structural strings are removed
LabelAtEnd(i) == processed_results[i].from

\* some rule among lo..hi is for the row
MatchesSome(lo, hi, from, to) == \E k \in lo..hi : Matches(k, from, to)

\* the last rule whose predicate the raw row satisfies
LastMatch(from, to) ==
    CHOOSE k \in 1..9 : Matches(k, from, to) /\ ~MatchesSome(k + 1, 9, from, to)

----------------------------------------------------------------------------
(* C16 as amended: the rules are applied in the fixed source order, each   *)
(* to the label the rules before it left.  A row for the capacity rule and *)
(* the storage -> bus rule ends as from + "_capacity" + "_outflow" (both   *)
(* rewrites are kept); a bus -> storage rewrite replaces whatever the      *)
(* rules before it wrote; and a rule for the electricity bus no longer     *)
(* fires once the bus -> storage rule has replaced the label by one that   *)
(* does not name the bus, so there the earlier rule's label stays.         *)
C16_RulesWorkOnCurrentLabel ==
    pc = "l141" =>
        \A i \in 1..Len(results_raw) :
            LET f == RawParsed(i).from
                t == RawParsed(i).to
            IN  /\ (Matches(1, f, t) /\ Matches(2, f, t) /\ ~str_contains(f, s_DE_bus_el)) =>
                      LabelAtEnd(i) = f \o s__capacity \o s__outflow
                /\ (Matches(3, f, t) /\ ~MatchesSome(4, 9, f, t)) =>
                      LabelAtEnd(i) = t \o s__inflow
                /\ (Matches(3, f, t) /\ MatchesSome(4, 8, f, t)
                    /\ ~str_contains(t, s_DE_bus_el)) =>
                      LabelAtEnd(i) = t \o s__inflow
                /\ (Matches(3, f, t) /\ Matches(9, f, t)) =>
                      LabelAtEnd(i) = t \o s__inflow \o s_underscore \o t

\* a storage row whose destination reads as "None" and as the bus went through all rules
C16_Witness ==
    /\ pc = "l141"
    /\ \E i \in 1..Len(results_raw) :
          /\ RawParsed(i).to = s_DE_bus_el_None
          /\ LabelAtEnd(i) = s_DE_storage_el_PHS \o s__capacity \o s__outflow

\* C16 as stated: the final label is the one the last applicable rule gives the
\* row, the rewrites of earlier rules being overwritten
C16_LastApplicableRuleWins ==
    pc = "l141" =>
        \A i \in 1..Len(results_raw) :
            LET f == RawParsed(i).from
                t == RawParsed(i).to
            IN  MatchesSome(1, 9, f, t) => LabelAtEnd(i) = Label(LastMatch(f, t), f, t)

----------------------------------------------------------------------------
(* C17 as amended: the first statement appends "_capacity" to the label of *)
(* every row whose from contains "storage" and whose to contains "None",   *)
(* be it the sentinel or a longer name that holds it, and changes no other *)
(* row.                                                                    *)
C17_CapacitySuffix ==
    [][StatementDoes(1)]_vars

C17_Witness ==
    /\ pc = "l71"
    /\ \E i \in 1..Len(processed_results) :
          /\ processed_results[i].from = s_DE_storage_el_PHS \o s__capacity
          /\ processed_results[i].to = s_None

\* C17 as stated: the first statement appends "_capacity" to the label of the
\* rows whose from contains "storage" and whose to is the sentinel "None", and
\* to the label of no other row
C17_CapacityOnlyForSentinel ==
    [][ (pc = statement_lines[1] /\ pc' # pc) =>
          /\ Len(processed_results') = Len(processed_results)
          /\ \A i \in 1..Len(processed_results) :
                LET r == processed_results[i]
                IN  processed_results'[i] =
                      IF str_contains(r.from, s_storage) /\ r.to = s_None
                      THEN [r EXCEPT !.from = r.from \o s__capacity]
                      ELSE r ]_vars

----------------------------------------------------------------------------
(* C18: the second statement appends "_outflow" to the label of a storage  *)
(* -> electricity / EV bus row, the third gives an electricity bus ->      *)
(* storage row the label to + "_inflow"; in either mode the two flow       *)
(* directions of one storage end as <name>_outflow and <name>_inflow with  *)
(* the same <name>.                                                        *)
BothDirectionsOfOneStorage ==
    pc = "processed" =>
        \A i, j \in 1..Len(results_raw) :
            LET a == RawParsed(i)
                b == RawParsed(j)
                u == processed_results[i].unit
                v == processed_results[j].unit
            IN  ( /\ a.from = b.to
                  /\ str_contains(a.from, s_storage)
                  /\ a.to \in {s_DE_bus_el, s_DE_bus_ev}
                  /\ b.from = s_DE_bus_el ) =>
                    /\ str_endswith(u, s__outflow)
                    /\ str_endswith(v, s__inflow)
                    /\ SubSeq(u, 1, Len(u) - Len(s__outflow))
                       = SubSeq(v, 1, Len(v) - Len(s__inflow))

C18_FlowDirections ==
    /\ [][StatementDoes(2) /\ StatementDoes(3)]_vars
    /\ []BothDirectionsOfOneStorage

C18_Witness ==
    /\ pc = "processed"
    /\ mode = "investment"
    /\ results_raw = StoragePair(s_DE_storage_el_PHS_new_built)
    /\ processed_results[1].unit = s_PHS \o s__outflow
    /\ processed_results[2].unit = s_PHS \o s__inflow

----------------------------------------------------------------------------
(* C19 as amended: the statements for sinks, electrolyzers, uncontrolled   *)
(* EV charging and links give a row whose label names the electricity bus  *)
(* the label `to`, the one for demand response clusters gives it to +      *)
(* "_demand_after".  A row from the bus whose destination names one of     *)
(* these leaves the rules with that label if the destination names neither *)
(* a storage nor the bus; if it names a storage (and not the bus), the bus *)
(* -> storage statement has given the row the label to + "_inflow", none   *)
(* of the five statements fires, and the row leaves with to + "_inflow".   *)
BusRowsAtEnd ==
    pc = "l141" =>
        \A i \in 1..Len(results_raw) :
            LET f == RawParsed(i).from
                t == RawParsed(i).to
            IN  (str_contains(f, s_DE_bus_el) /\ ~str_contains(t, s_DE_bus_el)) =>
                    /\ (MatchesSome(4, 7, f, t) /\ ~str_contains(t, s_storage)) =>
                          LabelAtEnd(i) = t
                    /\ ( /\ Matches(8, f, t)
                         /\ ~MatchesSome(4, 7, f, t)
                         /\ ~str_contains(t, s_storage) ) =>
                          LabelAtEnd(i) = t \o s__demand_after
                    /\ (MatchesSome(4, 8, f, t) /\ str_contains(t, s_storage)) =>
                          LabelAtEnd(i) = t \o s__inflow

C19_BusToConsumer ==
    /\ [][\A k \in 4..8 : StatementDoes(k)]_vars
    /\ []BusRowsAtEnd

C19_Witness ==
    /\ pc = "l141"
    /\ \E i \in 1..Len(results_raw) :
          /\ RawParsed(i).from = s_DE_bus_el
          /\ LabelAtEnd(i) = s_hoho_cluster_shift_only \o s__demand_after

\* a row from the bus to a sink whose name holds "storage" left the rules
C19_WitnessStorage ==
    /\ pc = "l141"
    /\ \E i \in 1..Len(results_raw) :
          /\ RawParsed(i).from = s_DE_bus_el
          /\ RawParsed(i).to = s_DE_sink_el_storage
          /\ LabelAtEnd(i) = s_DE_sink_el_storage \o s__inflow

\* C19 as stated: a row from the electricity bus to a sink, an electrolyzer,
\* uncontrolled EV charging or a link leaves the rules with the label `to`,
\* one to a demand response cluster with to + "_demand_after"
C19_BusRowsGetToNode ==
    pc = "l141" =>
        \A i \in 1..Len(results_raw) :
            LET f == RawParsed(i).from
                t == RawParsed(i).to
            IN  str_contains(f, s_DE_bus_el) =>
                    /\ MatchesSome(4, 7, f, t) => LabelAtEnd(i) = t
                    /\ (Matches(8, f, t) /\ ~MatchesSome(4, 7, f, t)) =>
                          LabelAtEnd(i) = t \o s__demand_after

----------------------------------------------------------------------------
(* C20: the last statement gives every row whose to is one of the four     *)
(* demand response variables the label from + "_" + to; the four variables *)
(* of one demand response unit end as four distinct units.                 *)
DsmUnitsDistinct ==
    pc = "processed" =>
        \A i, j \in 1..Len(results_raw) :
            ( /\ RawParsed(i).from = RawParsed(j).from
              /\ RawParsed(i).to \in DsmVariables
              /\ RawParsed(j).to \in DsmVariables
              /\ RawParsed(i).to # RawParsed(j).to ) =>
                processed_results[i].unit # processed_results[j].unit

C20_DsmVariables ==
    /\ [][StatementDoes(9)]_vars
    /\ []DsmUnitsDistinct

C20_Witness ==
    /\ pc = "processed"
    /\ results_raw = DsmBlock(s_hoho_cluster_shift_only)
    /\ processed_results[4].unit
       = s_hoho_cluster_shift_only \o s_underscore \o s_dsm_storage_level
    /\ processed_results[1].unit = s_hoho_cluster_shift_only \o s_underscore \o s_dsm_up

----------------------------------------------------------------------------
(* The stripping step as the specification words it: the label without the *)
(* structural strings, everything else as it was.                           *)

\* a string of `strings` starts at position i of s
StartsAny(s, strings, i) == \E k \in 1..Len(strings) : StartsWithAt(s, strings[k], i)

\* the length of the string of `strings` that starts at position i of s
LengthAt(s, strings, i) ==
    Len(strings[CHOOSE k \in 1..Len(strings) : StartsWithAt(s, strings[k], i)])

\* s from position i on, read once from left to right, without the
\* occurrences of the strings
RECURSIVE WithoutFrom(_, _, _)
WithoutFrom(s, strings, i) ==
    IF i > Len(s) THEN <<>>
    ELSE IF StartsAny(s, strings, i)
         THEN WithoutFrom(s, strings, i + LengthAt(s, strings, i))
         ELSE <<s[i]>> \o WithoutFrom(s, strings, i + 1)

Without(s, strings) == WithoutFrom(s, strings, 1)

----------------------------------------------------------------------------
(* C21: the last step turns the label of every row into the label without  *)
(* "DE_storage_el_" and "DE_transformer_" and, in investment mode only,     *)
(* without "_new_built"; in dispatch mode a "_new_built" of the label is    *)
(* still in the unit.                                                       *)
C21_StrippingByMode ==
    [][ (pc = "l141" /\ pc' = "processed") =>
          \A i \in 1..Len(processed_results) :
              LET label == processed_results[i].from
                  unit  == processed_results'[i].unit
              IN  /\ unit = Without(label,
                                    IF mode = "investment"
                                    THEN <<s_DE_storage_el_, s_DE_transformer_, s__new_built>>
                                    ELSE <<s_DE_storage_el_, s_DE_transformer_>>)
                  /\ (mode = "dispatch" /\ str_contains(label, s__new_built)) =>
                        str_contains(unit, s__new_built) ]_vars

\* a new-built storage was preprocessed in dispatch mode and kept "_new_built"
C21_Witness ==
    /\ pc = "processed"
    /\ mode = "dispatch"
    /\ results_raw = StoragePair(s_DE_storage_el_PHS_new_built)
    /\ processed_results[1].unit = s_PHS \o s__new_built \o s__outflow
    /\ processed_results[2].unit = s_PHS \o s__new_built \o s__inflow

----------------------------------------------------------------------------
(* C22 as stated: for every unit string, the loop over string_to_drop run  *)
(* on an already stripped string leaves it as it is.                       *)
C22_StrippingIdempotent ==
    (frame.fn = "string_to_drop" /\ Len(frame.units) > 2) =>
        frame.units[3] = frame.units[2]

----------------------------------------------------------------------------
(* C23 as amended: a row for which no rule is leaves preprocess_raw_results *)
(* with its from_node, without the structural strings, as unit; the call    *)
(* raises nothing for it.  (What the grouping makes of the unit is the      *)
(* matter of the fuel and tech parts of the unit.)                          *)
Unmatched(i) == ~MatchesSome(1, 9, RawParsed(i).from, RawParsed(i).to)

C23_UnmatchedKeepsFromNode ==
    pc = "processed" =>
        /\ Len(processed_results) = Len(results_raw)
        /\ \A i \in 1..Len(results_raw) :
              Unmatched(i) =>
                  processed_results[i].unit
                    = Without(RawParsed(i).from,
                              IF mode = "investment"
                              THEN <<s_DE_storage_el_, s_DE_transformer_, s__new_built>>
                              ELSE <<s_DE_storage_el_, s_DE_transformer_>>)

\* a transformer -> bus row, for which no rule is, was preprocessed
C23_Witness ==
    /\ pc = "processed"
    /\ mode = "investment"
    /\ \E i \in 1..Len(results_raw) :
          /\ Unmatched(i)
          /\ RawParsed(i).from = s_DE_transformer_natgas_GT_new_built
          /\ processed_results[i].unit = s_natgas \o s_underscore \o s_GT

\* C23 as stated: moreover the grouping returns and has the unit of such a row
\* as a category of its own
C23_UnmatchedIsOwnCategory ==
    \A n \in Calls :
        (results[n].by \in {PyStr("energy_carrier"), PyStr("technology")}) =>
            \A i \in 1..Len(results_raw) :
                Unmatched(i) =>
                    /\ results[n].status = "return"
                    /\ \/ CellsOf(results[n].aggregated_results, processed_results[i].unit) # {}
                       \/ CellsOf(results[n].other_storages_results, processed_results[i].unit) # {}

----------------------------------------------------------------------------
(* C24: in the table a call derived its columns for, `technology` of a row *)
(* is, if the part of the unit after the first underscore contains GT, ST, *)
(* CC or FC, that part up to its first underscore (the whole part with     *)
(* include_chp_information), and the unit otherwise.                       *)
TechPart(unit) == SubSeq(unit, str_find(unit, "_") + 1, Len(unit))

HasTechCode(unit) ==
    /\ str_find(unit, "_") > 0
    /\ \E code \in {s_GT, s_ST, s_CC, s_FC} : str_contains(TechPart(unit), code)

CodeToken(unit) ==
    LET tech == TechPart(unit)
        n    == str_find(tech, "_")
    IN  IF n = 0 THEN tech ELSE SubSeq(tech, 1, n - 1)

C24_TechnologyColumn ==
    \A n \in Calls :
        DerivedColumns(n) =>
            \A i \in 1..Len(processed_results) :
                LET unit == processed_results[i].unit
                IN  results[n].in_place[i].technology =
                      IF HasTechCode(unit)
                      THEN (IF args.include_chp_information
                            THEN TechPart(unit) ELSE CodeToken(unit))
                      ELSE unit

\* a call with include_chp_information derived "CC_chp" for a CHP plant and
\* the unit itself for a unit without underscore
C24_Witness ==
    /\ pc = "aggregated"
    /\ args.include_chp_information
    /\ DerivedColumns(1)
    /\ \E i, j \in 1..Len(processed_results) :
          /\ processed_results[i].unit = s_natgas \o s_underscore \o s_CC \o <<"_","c","h","p">>
          /\ results[1].in_place[i].technology = s_CC \o <<"_","c","h","p">>
          /\ ~HasTechCode(processed_results[j].unit)
          /\ results[1].in_place[j].technology = processed_results[j].unit

----------------------------------------------------------------------------
(* C25: the cells of the table(s) a call returns are keyed by the columns  *)
(* of `by` and, iff investments, by year; no key occurs twice; and the     *)
(* value of a cell is the sum of the values of exactly the input rows that *)
(* have the key of the cell.                                               *)
RECURSIVE SumOfRows(_, _)
SumOfRows(table, rows) ==
    IF rows = {} THEN 0
    ELSE LET i == CHOOSE i \in rows : TRUE
         IN  table[i].value + SumOfRows(table, rows \ {i})

\* the columns the claim groups call n by
KeyColumns(n) ==
    results[n].by.items \o (IF args.investments THEN <<"year">> ELSE <<>>)

\* the input rows of call n that have the key
RowsWithKey(n, key) ==
    { i \in 1..Len(processed_results) :
        key = [j \in 1..Len(KeyColumns(n)) |-> results[n].in_place[i][KeyColumns(n)[j]]] }

C25_GroupedSums ==
    \A n \in Calls :
        results[n].status = "return" =>
            LET cells == results[n].aggregated_results \o results[n].other_storages_results
            IN  /\ \A c \in 1..Len(cells) :
                      /\ Len(cells[c].key) = Len(KeyColumns(n))
                      /\ RowsWithKey(n, cells[c].key) # {}
                      /\ cells[c].value
                           = SumOfRows(processed_results, RowsWithKey(n, cells[c].key))
                      /\ \A d \in 1..Len(cells) : cells[d].key = cells[c].key => d = c
                /\ results[n].returns = (IF args.investments THEN 2 ELSE 1)

\* a call without investments returned one total for a storage that has rows
\* of two years, and a call with investments returned two tables
C25_Witness ==
    /\ pc = "aggregated"
    /\ ~args.investments
    /\ results[1].status = "return"
    /\ \E c \in 1..Len(results[1].aggregated_results) :
          Cardinality(RowsWithKey(1, results[1].aggregated_results[c].key)) > 1

\* a call with investments returned cells keyed by year
C25_WitnessByYear ==
    /\ pc = "aggregated"
    /\ args.investments
    /\ results[1].status = "return"
    /\ \E c \in 1..Len(results[1].aggregated_results) :
          results[1].aggregated_results[c].key[Len(KeyColumns(1))] = y_2030

----------------------------------------------------------------------------
(* C26: for a relative folder path of one or two levels and any directory  *)
(* tree, a call of make_directory_if_missing returns without an error and  *)
(* the folder is there afterwards; a call that finds the folder changes    *)
(* nothing, so the second call leaves the tree as the first call left it.  *)
Levels(folder) == Len(path_of(folder))

C26_DirectoryAdded ==
    (Returned("make_directory_if_missing") /\ Levels(frame.folder) \in 1..2) =>
        /\ outcome.status = "return"
        /\ exists(frame.dirs, frame.folder)
        /\ \A k \in 1..(Len(frame.seen) - 1) :
              exists(frame.seen[k], frame.folder) => frame.seen[k + 1] = frame.seen[k]
        /\ Len(frame.seen) = 3 => frame.seen[3] = frame.seen[2]

\* the calls that do what the claim says: the folder is there or gets added,
\* and the second call changes nothing
C26_AddedWhenReturned ==
    (Returned("make_directory_if_missing") /\ outcome.status = "return") =>
        /\ exists(frame.dirs, frame.folder)
        /\ Len(frame.seen) = 3 => frame.seen[3] = frame.seen[2]

\* a folder of one level on an empty tree: the call raised after adding it
C26_RaisedOnOneLevel ==
    /\ Returned("make_directory_if_missing")
    /\ Levels(frame.folder) = 1
    /\ frame.seen[1] = {<<>>}
    /\ outcome.status = "raise"
    /\ outcome.error = "FileExistsError"
    /\ exists(frame.dirs, frame.folder)

----------------------------------------------------------------------------
(* C27: the slice load_time_series_data_slice returns for an hourly file   *)
(* is the rows from the row of start_time (position start_index) to the    *)
(* row of the end time (position end_index), both included, which are      *)
(* end_index - start_index + 1 rows.                                       *)
SliceRead ==
    /\ frame.fn = "load_input_data"
    /\ pc = "load_input_data:76"
    /\ str_contains(frame.filename, s_ts_hourly)

\* positions count from 0, the rows of the csv from 1
RowAt(csv, position) == csv.rows[position + 1]

C27_SliceFromStartTime ==
    SliceRead =>
        /\ Len(frame.df) = frame.end_index - frame.start_index + 1
        /\ frame.df[1] = RowAt(frame.csv, frame.start_index)
        /\ frame.df[Len(frame.df)] = RowAt(frame.csv, frame.end_index)

\* what the code returns: from start_index = 1 on, the slice starts one row
\* before the row of start_time and ends one row before the row of the end
C27_SliceAsRead ==
    SliceRead =>
        LET shift == IF frame.start_index >= 1 THEN 1 ELSE 0
        IN  /\ Len(frame.df) = frame.end_index - frame.start_index + 1
            /\ frame.df[1] = RowAt(frame.csv, frame.start_index - shift)
            /\ frame.df[Len(frame.df)] = RowAt(frame.csv, frame.end_index - shift)

\* a slice was read with start_time in the second row of the file
C27_ShiftedSlice ==
    /\ SliceRead
    /\ frame.start_index = 1
    /\ frame.df[1] = RowAt(frame.csv, 0)

----------------------------------------------------------------------------
(* C28: reshape_merit_order_data on n >= 1 blocks returns the blocks       *)
(* 0..n-2 in their order, each followed, if the next block has another     *)
(* fuel, by one row with the fuel of the next block and the marginal cost  *)
(* and cumulated capacity of the block itself; these are (n-1)+k rows for  *)
(* k neighbouring pairs of different fuel; no row is taken from the last   *)
(* block.  The numbers are returned as float32.                            *)

\* the numbers of a row as cast(_) gives them
CastRow(row, cast(_)) ==
    [fuel |-> row.fuel, costs_marginal |-> cast(row.costs_marginal),
     capacity_cumulated |-> cast(row.capacity_cumulated)]

\* the rows the claim lists for the blocks from position i on
RECURSIVE EmittedFrom(_, _)
EmittedFrom(blocks, i) ==
    IF i >= Len(blocks) THEN <<>>
    ELSE <<blocks[i]>>
         \o (IF blocks[i].fuel # blocks[i + 1].fuel
             THEN <<[blocks[i] EXCEPT !.fuel = blocks[i + 1].fuel]>>
             ELSE <<>>)
         \o EmittedFrom(blocks, i + 1)

Emitted(blocks, cast(_)) ==
    [i \in 1..Len(EmittedFrom(blocks, 1)) |-> CastRow(EmittedFrom(blocks, 1)[i], cast)]

FuelChanges(blocks) ==
    Cardinality({ i \in 1..(Len(blocks) - 1) : blocks[i].fuel # blocks[i + 1].fuel })

SameNumbers(a, b) ==
    a.costs_marginal = b.costs_marginal /\ a.capacity_cumulated = b.capacity_cumulated

Unchanged(x) == x

\* as stated: the numbers as given, and the numbers of the last block in no row
C28_ReshapedAsStated ==
    (Returned("reshape_merit_order_data") /\ Len(frame.blocks) >= 1) =>
        /\ outcome.value = Emitted(frame.blocks, Unchanged)
        /\ Len(outcome.value) = (Len(frame.blocks) - 1) + FuelChanges(frame.blocks)
        /\ \A i \in 1..Len(outcome.value) :
              ~SameNumbers(outcome.value[i], frame.blocks[Len(frame.blocks)])

\* amended: the numbers as float32, and the numbers of the last block only in
\* the rows of earlier blocks that have the same numbers
C28_Reshaped ==
    (Returned("reshape_merit_order_data") /\ Len(frame.blocks) >= 1) =>
        LET n    == Len(frame.blocks)
            last == CastRow(frame.blocks[n], astype_float32)
        IN  /\ outcome.value = Emitted(frame.blocks, astype_float32)
            /\ Len(outcome.value) = (n - 1) + FuelChanges(frame.blocks)
            /\ \A i \in 1..Len(outcome.value) :
                  SameNumbers(outcome.value[i], last) =>
                      \E j \in 1..(n - 1) :
                          SameNumbers(CastRow(frame.blocks[j], astype_float32), last)

\* three blocks with a change of fuel between the first two were reshaped
C28_Witness ==
    /\ Returned("reshape_merit_order_data")
    /\ Len(frame.blocks) = 3
    /\ frame.blocks[1].fuel # frame.blocks[2].fuel
    /\ frame.blocks[2].fuel = frame.blocks[3].fuel
    /\ Len(outcome.value) = 3
    /\ outcome.value[2].fuel = frame.blocks[2].fuel
    /\ outcome.value[2].costs_marginal = frame.blocks[1].costs_marginal

----------------------------------------------------------------------------
(* C29: cut_leap_days removes the rows of 31 December of each leap year in *)
(* the index and no other row: the rows of 29 February stay, the years     *)
(* that are no leap years stay as they are, and the rows are removed from  *)
(* the object that was passed, which is the object returned.               *)
GregorianLeap(year) ==
    (year % 4 = 0 /\ year % 100 # 0) \/ year % 400 = 0

LeapYearEnd(date) ==
    GregorianLeap(date[1]) /\ date[2] = 12 /\ date[3] = 31

C29_CutsLeapYearEndsInPlace ==
    Returned("cut_leap_days") =>
        /\ DOMAIN frame.time_series = { d \in DOMAIN frame.given : ~LeapYearEnd(d) }
        /\ \A d \in DOMAIN frame.time_series : frame.time_series[d] = frame.given[d]
        /\ outcome.status = "return"
        /\ outcome.value = frame.time_series

\* a leap year with its 29 February and its 31 December was passed, and the
\* series came back without the 31 December only
C29_Witness ==
    /\ Returned("cut_leap_days")
    /\ \E y \in YearsOf(frame.given) :
          /\ <<y, 2, 29>> \in DOMAIN frame.given
          /\ <<y, 12, 31>> \in DOMAIN frame.given
          /\ <<y, 2, 29>> \in DOMAIN outcome.value
          /\ <<y, 12, 31>> \notin DOMAIN outcome.value
          /\ outcome.value[<<y, 2, 29>>] = HoursPerDay

----------------------------------------------------------------------------
(* C30: process_input_data changes `im` only if activate_demand_response   *)
(* is true: then it stores the cluster names of the eligibility file as    *)
(* im.demand_response_clusters before it loads the files of the clusters,  *)
(* and the keys loaded include those of demand response; if it is false,   *)
(* im has no attribute demand_response_clusters afterwards and is as it    *)
(* was.  emission_development_factors is loaded iff one of the two         *)
(* emission limits is active.  A call that ends with the error of a load   *)
(* returns no keys; it has changed im only if it got to store the clusters.*)
LoadedKeys == { outcome.value[i][1] : i \in 1..Len(outcome.value) }

DemandResponseKeys(index) ==
    {s_demand_response_clusters_eligibility, s_sinks_dr_el_ts,
     s_sinks_dr_el_ava_pos_ts, s_sinks_dr_el_ava_neg_ts}
    \cup { s_sinks_dr_el_ \o index[i] : i \in 1..Len(index) }
    \cup { s_sinks_dr_el_ \o index[i] \o s__variable_costs : i \in 1..Len(index) }
    \cup { s_sinks_dr_el_ \o index[i] \o s__fixed_costs_and_investments : i \in 1..Len(index) }

\* the positions in frame.calls of the calls that store the clusters
StoredAt == { i \in 1..Len(frame.calls) : frame.calls[i].call = "add_demand_response_clusters" }

C30_OnlyDemandResponseChangesIm ==
    Returned("process_input_data") =>
        /\ \A a \in DOMAIN frame.given : a \in DOMAIN frame.im /\ frame.im[a] = frame.given[a]
        /\ IF frame.given["activate_demand_response"] /\ StoredAt # {}
           THEN /\ DOMAIN frame.im = DOMAIN frame.given \cup {"demand_response_clusters"}
                /\ frame.im["demand_response_clusters"] = frame.eligibility
                /\ Cardinality(StoredAt) = 1
                /\ \A s \in StoredAt : \A i \in 1..(s - 1) :
                      frame.calls[i].filename = s_demand_response_clusters_eligibility
           ELSE /\ "demand_response_clusters" \notin DOMAIN frame.im
                /\ frame.im = frame.given
                /\ StoredAt = {}
        /\ outcome.status = "return" =>
              /\ frame.given["activate_demand_response"] =>
                    /\ StoredAt # {}
                    /\ \A s \in StoredAt : \A key \in DemandResponseKeys(frame.eligibility) :
                          \E i \in (s + 1)..Len(frame.calls) :
                              \E j \in 1..Len(frame.input_files) :
                                  /\ frame.input_files[j][1] = key
                                  /\ frame.calls[i].filename = frame.input_files[j][2]
                    /\ DemandResponseKeys(frame.eligibility) \subseteq LoadedKeys
              /\ (s_emission_development_factors \in LoadedKeys)
                   <=> ( \/ frame.given["activate_emissions_pathway_limit"]
                         \/ frame.given["activate_emissions_budget_limit"] )
        /\ outcome.status = "raise" =>
              (StoredAt = {}) = ( \/ ~frame.given["activate_demand_response"]
                                 \/ frame.calls[Len(frame.calls)].filename
                                      = s_demand_response_clusters_eligibility )

\* a call with demand response, two clusters and the budget limit returned
C30_Witness ==
    /\ Returned("process_input_data")
    /\ outcome.status = "return"
    /\ frame.given["activate_demand_response"]
    /\ frame.given["activate_emissions_budget_limit"]
    /\ ~frame.given["activate_emissions_pathway_limit"]
    /\ Len(frame.eligibility) = 2
    /\ frame.im["demand_response_clusters"] = frame.eligibility
    /\ s_emission_development_factors \in LoadedKeys
    /\ (s_sinks_dr_el_ \o s_hoho_cluster_shift_only) \in LoadedKeys

\* a call without demand response and without emission limits returned
C30_WitnessWithout ==
    /\ Returned("process_input_data")
    /\ outcome.status = "return"
    /\ ~frame.given["activate_demand_response"]
    /\ ~frame.given["activate_emissions_budget_limit"]
    /\ ~frame.given["activate_emissions_pathway_limit"]
    /\ s_emission_development_factors \notin LoadedKeys
    /\ frame.im = frame.given

====
